---- MODULE Spec2Model ----
(***************************************************************************)
(* Telemetry streaming agent: the Config Worker (declaration apply,        *)
(* load, namespace-scoped update) and the data pipeline's forward step.    *)
(***************************************************************************)
EXTENDS Integers, Sequences, FiniteSets, TLC

(***************************************************************************)
(* Bounds of the model.                                                    *)
(***************************************************************************)
\* number of API invocations (processDeclaration, processNamespaceDeclaration,
\* load) made in one behaviour; they may overlap freely
MaxCalls == 2

Calls == 1..MaxCalls

(***************************************************************************)
(* Names.                                                                  *)
(***************************************************************************)
ROOT_CLASS == "Telemetry"
NAMESPACE_CLASS_NAME == "Telemetry_Namespace"
LISTENER_CLASS == "Telemetry_Listener"
CONSUMER_CLASS == "Telemetry_Consumer"
PULL_CONSUMER_CLASS == "Telemetry_Pull_Consumer"
PULL_GROUP_CLASS == "Telemetry_Pull_Consumer_System_Poller_Group"
SYSTEM_POLLER_CLASS == "Telemetry_System_Poller"
DEFAULT_NAMESPACE == "f5telemetry_default"

KnownClasses ==
    {LISTENER_CLASS, CONSUMER_CLASS, PULL_CONSUMER_CLASS, SYSTEM_POLLER_CLASS}

\* the named namespaces a declaration of the model may declare
NamespaceNames == <<"NsA", "NsB">>

NamespaceSet == {NamespaceNames[i] : i \in 1..Len(NamespaceNames)}

(***************************************************************************)
(* Declarations.  A declaration is the root object: its top-level named    *)
(* objects (default namespace) in key order, and one entry per namespace   *)
(* name (absent, or a Telemetry_Namespace holding its own objects).        *)
(* An object: enable is "true", "false" or "unset" (schema default true);  *)
(* passphrase is "none" or "cipher"; pointer is "none", "ok" or "bad"      *)
(* (a pointer expression that expansion can or cannot resolve).            *)
(***************************************************************************)
Obj(name, class, enable, passphrase, systemPoller, pointer) ==
    [name |-> name, class |-> class, enable |-> enable,
     passphrase |-> passphrase, systemPoller |-> systemPoller,
     pointer |-> pointer]

Absent == [class |-> "absent", objects |-> <<>>]

Namespace(objects) == [class |-> NAMESPACE_CLASS_NAME, objects |-> objects]

Declaration(objects, nsA, nsB) ==
    [class |-> ROOT_CLASS, objects |-> objects,
     ns |-> [n \in NamespaceSet |-> IF n = "NsA" THEN nsA ELSE nsB]]

BASE_DECLARATION == Declaration(<<>>, Absent, Absent)

PushBody(enable) ==
    << Obj("My_Listener", LISTENER_CLASS, "unset", "none", <<>>, "none"),
       Obj("My_Consumer", CONSUMER_CLASS, enable, "cipher", <<>>, "none") >>

PullBody(enable) ==
    << Obj("Pull_Poller", SYSTEM_POLLER_CLASS, "unset", "none", <<>>, "none"),
       Obj("My_Pull_Consumer", PULL_CONSUMER_CLASS, enable, "none",
           <<"Pull_Poller">>, "none") >>

\* violates the schema: no such class
BadSchemaBody == << Obj("My_Thing", "Telemetry_Bogus", "unset", "none", <<>>, "none") >>

\* passes the schema, fails when expanded: the pointer does not resolve
BadPointerBody == << Obj("My_Consumer", CONSUMER_CLASS, "unset", "cipher", <<>>, "bad") >>

\* full declarations a caller may submit
Declarations ==
    { Declaration(PushBody("unset"), Absent, Absent),
      Declaration(PushBody("false"), Namespace(PullBody("unset")), Absent),
      Declaration(BadSchemaBody, Absent, Absent),
      Declaration(BadPointerBody, Absent, Absent) }

\* namespace declarations a caller may submit
NamespaceDeclarations ==
    { Namespace(PushBody("unset")),
      Namespace(PullBody("false")),
      Namespace(BadSchemaBody) }


(***************************************************************************)
(* utils/config: validation, expansion, normalization (components with ids *)
(* and mappings), merge of one namespace, secret decryption.               *)
(***************************************************************************)
RECURSIVE Concat(_)
Concat(seqs) == IF seqs = <<>> THEN <<>> ELSE Head(seqs) \o Concat(Tail(seqs))

MapSeq(s, F(_)) == [i \in 1..Len(s) |-> F(s[i])]

Range(s) == {s[i] : i \in 1..Len(s)}

\* the schema: a root of class Telemetry whose objects all have a known class
SchemaValidObjects(objects) ==
    \A i \in 1..Len(objects) :
        /\ objects[i].class \in KnownClasses
        /\ objects[i].enable \in {"true", "false", "unset"}

SchemaValidNamespace(entry) ==
    /\ entry.class = NAMESPACE_CLASS_NAME
    /\ SchemaValidObjects(entry.objects)

SchemaValid(declaration) ==
    /\ declaration.class = ROOT_CLASS
    /\ SchemaValidObjects(declaration.objects)
    /\ \A n \in NamespaceSet :
          declaration.ns[n] = Absent \/ SchemaValidNamespace(declaration.ns[n])

\* validation mutates the data: schema defaults are filled in
WithDefaults(objects) ==
    MapSeq(objects, LAMBDA o :
        [o EXCEPT !.enable = IF o.enable = "unset" THEN "true" ELSE o.enable])

ValidatedNamespace(entry) ==
    IF entry = Absent THEN Absent ELSE Namespace(WithDefaults(entry.objects))

Validated(declaration) ==
    [class |-> declaration.class,
     objects |-> WithDefaults(declaration.objects),
     ns |-> [n \in NamespaceSet |-> ValidatedNamespace(declaration.ns[n])]]

\* the second pass (context.expand): every pointer has to resolve
AllObjects(declaration) ==
    declaration.objects
        \o Concat(MapSeq(NamespaceNames, LAMBDA n : declaration.ns[n].objects))

ExpandValid(declaration) ==
    \A o \in Range(AllObjects(declaration)) : o.pointer # "bad"

ExpandObjects(objects) ==
    MapSeq(objects, LAMBDA o :
        [o EXCEPT !.pointer = IF o.pointer = "ok" THEN "none" ELSE o.pointer])

Expanded(declaration) ==
    [class |-> declaration.class,
     objects |-> ExpandObjects(declaration.objects),
     ns |-> [n \in NamespaceSet |->
                IF declaration.ns[n] = Absent THEN Absent
                ELSE Namespace(ExpandObjects(declaration.ns[n].objects))]]

\* component ids: <<namespace, name>> or <<namespace, system, poller>>
Component(namespace, o) ==
    [id |-> IF o.class = SYSTEM_POLLER_CLASS
              THEN <<namespace, o.name, o.name>>
              ELSE <<namespace, o.name>>,
     namespace |-> namespace,
     class |-> o.class,
     enable |-> (o.enable # "false"),
     passphrase |-> o.passphrase,
     pullConsumer |-> <<>>,
     systemPollers |-> <<>>,
     skipUpdate |-> FALSE]

SYSTEM_CLASS == "Telemetry_System"

\* in the systemPoller list of a System: a poller given inline, not by name
INLINE_POLLER == "{inline}"

\* the name the first inline poller of a System gets
INLINE_POLLER_NAME == "SystemPoller_1"

\* the ids of the poller components of one System, in the order of its list
SystemPollerIds(namespace, system) ==
    MapSeq(system.systemPoller, LAMBDA p :
        <<namespace, system.name, IF p = INLINE_POLLER THEN INLINE_POLLER_NAME ELSE p>>)

\* the poller names that some System of the objects references
ReferencedBySystems(objects) ==
    UNION {Range(o.systemPoller) : o \in {x \in Range(objects) : x.class = SYSTEM_CLASS}}

\* the ids of the poller components of a namespace: those of its Systems,
\* then one for each poller that no System references, under a system
\* named as the poller
PollerComponentIds(namespace, objects) ==
    Concat(MapSeq(SelectSeq(objects, LAMBDA o : o.class = SYSTEM_CLASS),
                  LAMBDA system : SystemPollerIds(namespace, system)))
    \o MapSeq(SelectSeq(objects, LAMBDA o :
                   /\ o.class = SYSTEM_POLLER_CLASS
                   /\ o.name \notin ReferencedBySystems(objects)),
              LAMBDA o : <<namespace, o.name, o.name>>)

\* a group that takes every poller of the namespace
pollerOfConsumerAny(id, consumer) == TRUE

\* the poller component is one of the pollers the Pull Consumer names
pollerOfConsumer(id, consumer) == id[3] \in Range(consumer.systemPoller)

\* the systemPollers of the poller group of a Pull Consumer
systemPollersOf(namespace, objects, consumer) ==
    SelectSeq(PollerComponentIds(namespace, objects),
              LAMBDA id : pollerOfConsumer(id, consumer))

PollerGroup(namespace, objects, o) ==
    [id |-> <<namespace, PULL_GROUP_CLASS, o.name>>,
     namespace |-> namespace,
     class |-> PULL_GROUP_CLASS,
     enable |-> (o.enable # "false"),
     passphrase |-> "none",
     pullConsumer |-> <<namespace, o.name>>,
     systemPollers |-> systemPollersOf(namespace, objects, o),
     skipUpdate |-> FALSE]

OfClass(objects, class) == SelectSeq(objects, LAMBDA o : o.class = class)

\* the components of one namespace and one class
ClassComponents(namespace, objects, class) ==
    IF class = PULL_CONSUMER_CLASS
    THEN Concat(MapSeq(OfClass(objects, class),
                       LAMBDA o : <<Component(namespace, o),
                                    PollerGroup(namespace, objects, o)>>))
    ELSE MapSeq(OfClass(objects, class), LAMBDA o : Component(namespace, o))

\* the order in which the classes are turned into components
ClassOrder ==
    <<LISTENER_CLASS, CONSUMER_CLASS, PULL_CONSUMER_CLASS, SYSTEM_POLLER_CLASS>>

\* the components of one namespace
NamespaceComponents(namespace, objects) ==
    Concat(MapSeq(ClassOrder, LAMBDA class : ClassComponents(namespace, objects, class)))

\* producer id -> ids of the enabled consumers it feeds, no entry when empty
PushConsumers(components, namespace) ==
    MapSeq(SelectSeq(components, LAMBDA c :
               c.class = CONSUMER_CLASS /\ c.enable /\ c.namespace = namespace),
           LAMBDA c : c.id)

Destinations(components, p) ==
    IF p.class = PULL_GROUP_CLASS THEN <<p.pullConsumer>>
    ELSE PushConsumers(components, p.namespace)

IsProducer(components, p) ==
    /\ p.class \in {LISTENER_CLASS, PULL_GROUP_CLASS}
    /\ p.enable
    /\ Destinations(components, p) # <<>>

ById(components, id) == CHOOSE c \in Range(components) : c.id = id

Mappings(components) ==
    [id \in {p.id : p \in {c \in Range(components) : IsProducer(components, c)}}
        |-> Destinations(components, ById(components, id))]

Configuration(components) ==
    [components |-> components, mappings |-> Mappings(components)]

BASE_CONFIG == [components |-> <<>>, mappings |-> << >>]

\* class by class, and within a class the default namespace first
normalizeDeclaration(declaration) ==
    Configuration(
        Concat(MapSeq(ClassOrder, LAMBDA class :
            ClassComponents(DEFAULT_NAMESPACE, declaration.objects, class)
            \o Concat(MapSeq(NamespaceNames, LAMBDA n :
                         ClassComponents(n, declaration.ns[n].objects, class))))))

\* normalize one namespace only, keep the components of the other namespaces
mergeDeclaration(namespace, entry, configuration) ==
    Configuration(
        SelectSeq(configuration.components, LAMBDA c : c.namespace # namespace)
        \o NamespaceComponents(namespace, entry.objects))

decryptSecrets(configuration) ==
    [configuration EXCEPT !.components =
        MapSeq(configuration.components, LAMBDA c :
            [c EXCEPT !.passphrase = IF c.passphrase = "cipher" THEN "plain"
                                     ELSE c.passphrase])]

\* consumers module, 'change' handler: the enabled push consumers are loaded;
\* a component marked skipUpdate keeps its loaded instance, if there is one
loadConsumers(configuration, loaded) ==
    MapSeq(SelectSeq(configuration.components, LAMBDA c :
               /\ c.class = CONSUMER_CLASS
               /\ c.enable
               /\ (c.skipUpdate => c.id \in Range(loaded))),
           LAMBDA c : c.id)

(***************************************************************************)
(* State.                                                                  *)
(***************************************************************************)
VARIABLES
    storage,        \* persistentStorage, key 'config': [defined, raw]
    configField,    \* ConfigWorker._currentConfig: [defined, config]
    call,           \* per API invocation: its position and its locals
    consumers,      \* consumers module: ids of the loaded consumers, in order
    fwd,            \* dataPipeline: the forward in flight
    eventListener,  \* event listeners and the receivers manager
    receiver,       \* one data receiver: its state, its socket, its senders
    tokenCache,     \* Google Cloud token cache, and the clock
    kafka,          \* Kafka consumer: its connection cache and its calls
    pure            \* a utility function under evaluation: input and result

\* the state of the subsystems that the Config Worker and the pipeline leave alone
dataPlane == <<eventListener, receiver, tokenCache, kafka, pure>>

\* the state that the data plane leaves alone
configPlane == <<storage, configField, call, consumers, fwd, kafka, pure>>

\* the state that the Kafka consumer and the utility functions leave alone
corePlane ==
    <<storage, configField, call, consumers, fwd, eventListener, receiver, tokenCache>>

vars ==
    <<storage, configField, call, consumers, fwd, eventListener, receiver,
      tokenCache, kafka, pure>>

\* ConfigWorker.currentConfig getter
currentConfig == IF configField.defined THEN configField.config ELSE BASE_CONFIG

NoChange == [emitted |-> FALSE, config |-> BASE_CONFIG, setConfigOpts |-> ""]

\* options.metadata is undefined
NoMetadata == [message |-> "", caller |-> 0]

\* the metadata the caller of invocation c passes in its options
CallerMetadata(c) == [message |-> "request", caller |-> c]

\* lines 134-136: the metadata load() passes with the stored declaration
LoadMetadata == [message |-> "Loading saved configuration", caller |-> 0]

\* lines 144-146: the metadata load() passes with the base declaration
LoadDefaultMetadata ==
    [message |-> "Loading default config! Unable to load saved config, see error message in logs",
     caller |-> 0]

\* a payload without a transaction id
NoTransactionID == <<0, 0>>

\* declaration[name] is undefined
NoMember == [defined |-> FALSE, class |-> "undefined", objects |-> <<>>]

\* getDeclaration has not resolved
NoDeclaration ==
    [kind |-> "none", declaration |-> BASE_DECLARATION, member |-> NoMember]

IdleCall ==
    [pc |-> "idle", api |-> "none", attempt |-> 0, metadata |-> NoMetadata,
     namespace |-> "", returned |-> NoDeclaration,
     declaration |-> BASE_DECLARATION, save |-> TRUE, namespaceToUpdate |-> "",
     nsDeclaration |-> Absent,
     storageData |-> BASE_DECLARATION, expandedConfig |-> BASE_DECLARATION,
     conf |-> BASE_CONFIG, newConfig |-> BASE_CONFIG,
     events |-> <<>>, change |-> NoChange, error |-> "",
     setConfig |-> FALSE, wrote |-> FALSE, notifyError |-> "",
     before |-> [config |-> BASE_CONFIG, storage |-> [defined |-> FALSE, raw |-> BASE_DECLARATION]],
     base |-> BASE_CONFIG]

\* a declaration stored by an earlier version that the present schema rejects
StaleDeclaration == Declaration(BadSchemaBody, Absent, Absent)

StoredAtStart ==
    { [defined |-> FALSE, raw |-> BASE_DECLARATION],
      [defined |-> TRUE, raw |-> Validated(Declaration(PushBody("unset"), Absent, Absent))],
      [defined |-> TRUE, raw |-> StaleDeclaration] }

NoForward ==
    [state |-> "idle", destinationIds |-> {}, invoked |-> << >>,
     threwInActions |-> {}, threwInConsumer |-> {}, sending |-> {},
     applied |-> << >>]

\* the listeners a declaration of the model may declare, in the order in which
\* a 'change' handler goes through them
ListenerOrder ==
    << <<DEFAULT_NAMESPACE, "Listener1">>,
       <<DEFAULT_NAMESPACE, "Listener2">>,
       <<"New", "Listener1">> >>

ListenerIds == {ListenerOrder[i] : i \in 1..Len(ListenerOrder)}

\* the port of the tests and the default port of a declaration
Ports == {1234, 6514}

\* EventListener.instances[id] is undefined
NoListener ==
    [defined |-> FALSE, port |-> 0, match |-> "", stream |-> 0,
     created |-> 0, updates |-> 0]

\* receiversManager.registered[port] is undefined
NoStream == [defined |-> FALSE, stream |-> 0, starts |-> 0, running |-> FALSE]

\* a listener that a configuration does not hold
AbsentListener == [present |-> FALSE, port |-> 0, enable |-> FALSE, match |-> ""]

NoFrame == [port |-> 0, raw |-> "", keywords |-> {}]

\* no listener, no receiver registered, no configuration received yet
NoListeners ==
    [instances |-> [id \in ListenerIds |-> NoListener],
     registered |-> [port \in Ports |-> NoStream],
     config |-> [id \in ListenerIds |-> AbsentListener],
     namespaceToUpdate |-> "",
     changes |-> 0,
     destroyed |-> 0,
     frame |-> NoFrame,
     records |-> {}]

\* the kinds of data receiver, and the sockets each of them listens on
ReceiverKinds == {"tcp", "udp", "dualUdp"}

AllSockets == {"tcp", "udp4", "udp6"}

SocketsOf(kind) ==
    IF kind = "tcp" THEN {"tcp"}
    ELSE IF kind = "udp" THEN {"udp4"}
    ELSE {"udp4", "udp6"}

\* a receiver as constructed: state NEW, no socket
Receiver(kind) ==
    [kind |-> kind, state |-> "NEW",
     sockets |-> [s \in AllSockets |-> "none"],
     after |-> "none",              \* what follows the close in progress
     listens |-> 0, closes |-> 0,   \* calls of socket.listen / socket.close
     starts |-> 0,                  \* start attempts made
     restarts |-> 0,                \* consecutive calls of restart()
     timer |-> FALSE,               \* a restart waits for RESTART_DELAY
     destroyRequested |-> FALSE,
     gaveUp |-> FALSE,
     ignored |-> FALSE,             \* a restart found the receiver destroyed
     startResult |-> "none", stopResult |-> "none", apply |-> "none",
     sent |-> <<0, 0>>,             \* data each sender has sent so far
     emitted |-> <<>>,              \* 'data' events emitted, not yet delivered
     delivered |-> <<>>]            \* data handed to a consumer, in order

NewReceiver == Receiver("tcp")

\* the token ids of the model: a private key id and a service e-mail
TokenIds == {"privateKeyId", "serviceEmail"}

\* the lifetimes (expires_in, seconds) a token service answers with
ExpiresIn == {30, 60, 90, 120}

\* the steps by which the clock of the model advances, seconds
Ticks == {30}

AccessTokens == {"token1", "token2"}

\* a token as the token service returns it
Tokens == [access_token : AccessTokens, expires_in : ExpiresIn]

\* this.cache[tokenId] is undefined
NoToken == [defined |-> FALSE, access_token |-> "", expires_in |-> 0, expiresAt |-> 0]

\* no call of the cache has been made
NoResult ==
    [op |-> "none", tokenId |-> "", at |-> 0,
     returned |-> NoToken, before |-> [t \in TokenIds |-> NoToken],
     after |-> [t \in TokenIds |-> NoToken]]

\* the service accounts of the model: one authenticates with its private
\* key, the other with the token of the instance metadata service
ServiceAccounts ==
    {[serviceEmail |-> "serviceEmail", privateKeyId |-> "privateKeyId",
      useServiceAccountToken |-> use] : use \in BOOLEAN}

\* the number of calls of getAccessToken the model follows
MaxRequests == 3

Requests == 1..MaxRequests

\* a call of getAccessToken that has not been made
NoRequest == [state |-> "idle", account |-> "", tokenId |-> "", resolved |-> ""]

\* no call of getAccessToken has been made
NoAccess ==
    [op |-> "none", request |-> 0, tokenId |-> "", at |-> 0,
     requested |-> FALSE, resolved |-> "", sinceInvalidate |-> "none",
     before |-> [t \in TokenIds |-> NoToken],
     after |-> [t \in TokenIds |-> NoToken]]

\* lines 32-35 of the token cache: nothing cached; the clock of the model at 0;
\* no token request in flight
EmptyTokenCache ==
    [cache |-> [t \in TokenIds |-> NoToken], now |-> 0, result |-> NoResult,
     pending |-> [q \in Requests |-> NoRequest],
     \* per token id: "invalidated" since its last getAccessToken, and
     \* "recached" when a token request has answered since
     sinceInvalidate |-> [t \in TokenIds |-> "none"],
     access |-> NoAccess]

\* the connection configurations (host and port) of the Kafka consumers
KafkaHosts == {"kafka-host1:9090", "kafka-host1:9091"}

\* the number of calls of the Kafka consumer the model follows
MaxKafkaCalls == 3

KafkaCalls == 1..MaxKafkaCalls

\* no Kafka client created, no call of the consumer made
NoKafka ==
    [connection |-> [h \in KafkaHosts |-> "none"],
     clients |-> [h \in KafkaHosts |-> 0],
     call |-> [k \in KafkaCalls |->
                 [state |-> "idle", host |-> "", found |-> "", sends |-> 0]]]

\* no utility function under evaluation
NoEvaluation == [op |-> "none"]

Init ==
    /\ storage \in StoredAtStart
    /\ configField = [defined |-> FALSE, config |-> BASE_CONFIG]
    /\ call = [c \in Calls |-> IdleCall]
    /\ consumers = <<>>
    /\ fwd = NoForward
    /\ eventListener = NoListeners
    /\ receiver = NewReceiver
    /\ tokenCache = EmptyTokenCache
    /\ kafka = NoKafka
    /\ pure = NoEvaluation

(***************************************************************************)
(* ConfigWorker.processDeclaration, step by step.                          *)
(***************************************************************************)
\* line 211: util.generateUuid(), a value no other call of processDeclaration
\* gets: the invocation and its attempt
generateUuid(c, attempt) == <<c, attempt>>

\* a 'validationFailed' event that leaves the metadata out
EventNoMetadataOnFailure(name, c, attempt, metadata) ==
    [name |-> name, by |-> <<c, attempt>>,
     transactionID |-> IF name = "change" THEN NoTransactionID
                       ELSE generateUuid(c, attempt),
     metadata |-> IF name \in {"change", "validationFailed"} THEN NoMetadata
                  ELSE metadata]

\* an event as emitted by the call of processDeclaration 'by'.  Lines 224-228,
\* 237-242 and 247-251: 'received', 'validationFailed' and 'validationSucceed'
\* carry the transaction id of the call and a copy of options.metadata;
\* line 350: 'change' carries the decrypted configuration and nothing else
Event(name, c, attempt, metadata) ==
    [name |-> name, by |-> <<c, attempt>>,
     transactionID |-> IF name = "change" THEN NoTransactionID
                       ELSE generateUuid(c, attempt),
     metadata |-> IF name = "change" THEN NoMetadata ELSE metadata]

Emit(rec, c, name) ==
    [rec EXCEPT !.events = Append(@, Event(name, c, rec.attempt, rec.metadata))]

\* lines 207-228: the locals of a call, then 'received'
Begin(rec, c, declaration, save, namespace) ==
    Emit([rec EXCEPT !.pc = "validate",
                     !.attempt = @ + 1,
                     !.declaration = declaration,
                     !.save = save,
                     !.namespaceToUpdate = namespace,
                     !.storageData = BASE_DECLARATION,
                     !.expandedConfig = BASE_DECLARATION,
                     !.setConfig = FALSE,
                     !.wrote = FALSE,
                     !.before = [config |-> currentConfig, storage |-> storage]],
         c, "received")

\* a fallback of load() that saves the base declaration
RejectedFallbackSaves(rec, c, error) ==
    IF rec.api = "load" /\ rec.attempt <= 1
    THEN Begin([rec EXCEPT !.attempt = 1, !.error = error,
                           !.metadata = LoadDefaultMetadata],
               c, BASE_DECLARATION, TRUE, "")
    ELSE [rec EXCEPT !.pc = "rejected", !.error = error]

\* the promise of processDeclaration rejects; load() catches the rejection of
\* its first attempt and processes the base declaration with save = false
Rejected(rec, c, error) ==
    IF rec.api = "load" /\ rec.attempt <= 1
    THEN Begin([rec EXCEPT !.attempt = 1, !.error = error,
                           !.metadata = LoadDefaultMetadata],
               c, BASE_DECLARATION, FALSE, "")
    ELSE [rec EXCEPT !.pc = "rejected", !.error = error]

\* a catch handler that emits 'validationFailed' and does not pass the error on:
\* the chain goes on with nothing validated
ValidationFailedSwallowed(rec, c) ==
    Emit(Emit([rec EXCEPT !.pc = "normalize"], c, "validationFailed"),
         c, "validationSucceed")

\* a catch handler of the save that logs the error and does not pass it on
SaveFailedSwallowed(rec, c) == [rec EXCEPT !.pc = "notify"]

\* lines 237-243: 'validationFailed' is emitted and the error is passed on
ValidationFailed(rec, c) ==
    Rejected(Emit(rec, c, "validationFailed"), c, "ValidationError")

\* lines 365-368: the error of the save is logged and passed on
SaveFailed(rec, c) == Rejected(rec, c, "StorageError")

SlotFree(c) ==
    /\ call[c].pc = "idle"
    /\ c > 1 => call[c - 1].pc # "idle"

processDeclaration(c, declaration, save) ==
    /\ SlotFree(c)
    /\ call' = [call EXCEPT ![c] =
                  Begin([@ EXCEPT !.api = "processDeclaration",
                                  !.metadata = CallerMetadata(c)],
                        c, declaration, save, "")]
    /\ UNCHANGED <<storage, configField, consumers, fwd, dataPlane>>

\* lines 170-178: the namespace declaration alone is validated first (a copy of it)
processNamespaceDeclaration(c, nsDeclaration, namespace) ==
    /\ SlotFree(c)
    /\ call' = [call EXCEPT ![c] =
                  IF SchemaValidNamespace(nsDeclaration)
                  THEN [@ EXCEPT !.api = "processNamespaceDeclaration",
                                 !.metadata = CallerMetadata(c),
                                 !.pc = "getDeclaration",
                                 !.nsDeclaration = nsDeclaration,
                                 !.namespaceToUpdate = namespace]
                  ELSE [@ EXCEPT !.api = "processNamespaceDeclaration",
                                 !.metadata = CallerMetadata(c),
                                 !.pc = "rejected",
                                 !.nsDeclaration = nsDeclaration,
                                 !.namespaceToUpdate = namespace,
                                 !.error = "ValidationError"]]
    /\ UNCHANGED <<storage, configField, consumers, fwd, dataPlane>>

\* lines 131-132
load(c) ==
    /\ SlotFree(c)
    /\ call' = [call EXCEPT ![c] = [@ EXCEPT !.api = "load", !.pc = "getDeclaration"]]
    /\ UNCHANGED <<storage, configField, consumers, fwd, dataPlane>>

\* lines 110-123 and 291-302: the stored raw declaration, or the base declaration
StoredDeclaration == IF storage.defined THEN storage.raw ELSE BASE_DECLARATION

\* declaration[name]: the top-level object or the namespace of that name
Member(declaration, name) ==
    LET named == SelectSeq(declaration.objects, LAMBDA o : o.name = name)
    IN IF named # <<>>
       THEN [defined |-> TRUE, class |-> Head(named).class, objects |-> <<Head(named)>>]
       ELSE IF name \in NamespaceSet /\ declaration.ns[name] # Absent
       THEN [defined |-> TRUE, class |-> declaration.ns[name].class,
             objects |-> declaration.ns[name].objects]
       ELSE NoMember

\* a slice that is handed out only when it is a namespace
sliceFoundNamespaceOnly(member) == member.class = NAMESPACE_CLASS_NAME

\* line 116: util.isObjectEmpty(declaration[namespace]) is false
sliceFound(member) == member.defined

\* lines 109-111: getDeclaration(namespace) is called, the storage is read
getDeclarationOf(c, namespace) ==
    /\ SlotFree(c)
    /\ call' = [call EXCEPT ![c] =
          [@ EXCEPT !.api = "getDeclaration", !.pc = "getStorageData",
                    !.namespace = namespace,
                    !.before = [config |-> currentConfig, storage |-> storage]]]
    /\ UNCHANGED <<storage, configField, consumers, fwd, dataPlane>>

\* lines 112-122 and 291-302: the read of the storage completes, successfully
\* or not; the raw declaration, the base declaration, or the slice
getStorageData(c) ==
    /\ call[c].pc = "getStorageData"
    /\ \E ok \in BOOLEAN :
          call' = [call EXCEPT ![c] =
              IF ~ok THEN [@ EXCEPT !.pc = "rejected", !.error = "StorageError"]
              ELSE IF @.namespace = ""
                   THEN [@ EXCEPT !.pc = "resolved",
                                  !.before = [config |-> currentConfig,
                                              storage |-> storage],
                                  !.returned = [kind |-> "declaration",
                                                declaration |-> StoredDeclaration,
                                                member |-> NoMember]]
              ELSE IF sliceFound(Member(StoredDeclaration, @.namespace))
                   THEN [@ EXCEPT !.pc = "resolved",
                                  !.before = [config |-> currentConfig,
                                              storage |-> storage],
                                  !.returned = [kind |-> "member",
                                                declaration |-> BASE_DECLARATION,
                                                member |-> Member(StoredDeclaration,
                                                                  call[c].namespace)]]
              ELSE [@ EXCEPT !.pc = "rejected",
                             !.before = [config |-> currentConfig,
                                         storage |-> storage],
                             !.error = "ObjectNotFoundInConfigError"]]
    /\ UNCHANGED <<storage, configField, consumers, fwd, dataPlane>>

\* a check of the existing object that lets every class through
overridesOtherClassNever(member) == FALSE

\* line 181: an object of that name exists and is no namespace
overridesOtherClass(member) ==
    member.defined /\ member.class # NAMESPACE_CLASS_NAME

\* lines 179-185 (namespace update) and 132-137 (load): the read of the storage
\* completes, successfully or not, and the full declaration is processed
getDeclaration(c) ==
    /\ call[c].pc = "getDeclaration"
    /\ \E ok \in BOOLEAN :
          call' = [call EXCEPT ![c] =
              IF ~ok THEN Rejected(@, c, "StorageError")
              ELSE IF @.api = "load"
                   THEN Begin([@ EXCEPT !.metadata = LoadMetadata],
                              c, StoredDeclaration, TRUE, "")
              ELSE IF overridesOtherClass(Member(StoredDeclaration, @.namespaceToUpdate))
                   THEN [@ EXCEPT !.pc = "rejected", !.error = "Error",
                                  !.before = [config |-> currentConfig,
                                              storage |-> storage]]
              ELSE Begin(@, c,
                         [StoredDeclaration EXCEPT
                              !.ns[call[c].namespaceToUpdate] = call[c].nsDeclaration],
                         TRUE, @.namespaceToUpdate)]
    /\ UNCHANGED <<storage, configField, consumers, fwd, dataPlane>>

\* lines 229-233 and 384-393, failure: lines 237-243
validate(c) ==
    /\ call[c].pc = "validate"
    /\ call' = [call EXCEPT ![c] =
          IF SchemaValid(@.declaration)
          THEN [@ EXCEPT !.pc = "expand",
                         !.declaration = Validated(call[c].declaration),
                         !.storageData = Validated(call[c].declaration)]
          ELSE ValidationFailed(@, c)]
    /\ UNCHANGED <<storage, configField, consumers, fwd, dataPlane>>

\* lines 235 and 313-316, then 244-252; failure: lines 237-243
expandDeclaration(c) ==
    /\ call[c].pc = "expand"
    /\ call' = [call EXCEPT ![c] =
          IF ExpandValid(@.declaration)
          THEN Emit([@ EXCEPT !.pc = "normalize",
                              !.declaration = Expanded(call[c].declaration),
                              !.expandedConfig = Expanded(call[c].declaration)],
                    c, "validationSucceed")
          ELSE ValidationFailed(@, c)]
    /\ UNCHANGED <<storage, configField, consumers, fwd, dataPlane>>

\* a namespace update that takes the merged components and keeps the mappings
NewConfigurationStaleMappings(rec, current) ==
    IF rec.namespaceToUpdate # ""
    THEN [components |->
              mergeDeclaration(rec.namespaceToUpdate,
                               rec.expandedConfig.ns[rec.namespaceToUpdate],
                               current).components,
          mappings |-> current.mappings]
    ELSE normalizeDeclaration(rec.expandedConfig)

\* a full apply that adds the normalized components to the current ones
NewConfigurationOntoCurrent(rec, current) ==
    IF rec.namespaceToUpdate # ""
    THEN mergeDeclaration(rec.namespaceToUpdate,
                          rec.expandedConfig.ns[rec.namespaceToUpdate], current)
    ELSE Configuration(current.components
                           \o normalizeDeclaration(rec.expandedConfig).components)

\* lines 253-265: the new configuration of a call
NewConfiguration(rec, current) ==
    IF rec.namespaceToUpdate # ""
    THEN mergeDeclaration(rec.namespaceToUpdate,
                          rec.expandedConfig.ns[rec.namespaceToUpdate], current)
    ELSE normalizeDeclaration(rec.expandedConfig)

normalize(c) ==
    /\ call[c].pc = "normalize"
    /\ call' = [call EXCEPT ![c] =
          [@ EXCEPT !.pc = "setConfig",
                    !.base = currentConfig,
                    !.conf = NewConfiguration(call[c], currentConfig)]]
    /\ UNCHANGED <<storage, configField, consumers, fwd, dataPlane>>

\* lines 266-278: the current config is replaced, then the save is started
setConfig(c) ==
    /\ call[c].pc = "setConfig"
    /\ configField' = [defined |-> TRUE, config |-> call[c].conf]
    /\ call' = [call EXCEPT ![c] =
          [@ EXCEPT !.pc = IF call[c].save THEN "saving" ELSE "notify",
                    !.setConfig = TRUE]]
    /\ UNCHANGED <<storage, consumers, fwd, dataPlane>>

\* lines 361-369: persistentStorage.set completes, successfully or not
saveToStorage(c) ==
    /\ call[c].pc = "saving"
    /\ \E ok \in BOOLEAN :
          IF ok
          THEN /\ storage' = [defined |-> TRUE, raw |-> call[c].storageData]
               /\ call' = [call EXCEPT ![c] = [@ EXCEPT !.pc = "notify", !.wrote = TRUE]]
          ELSE /\ storage' = storage
               /\ call' = [call EXCEPT ![c] = SaveFailed(@, c)]
    /\ UNCHANGED <<configField, consumers, fwd, dataPlane>>

\* line 279: notifyConfigChange is handed a copy of the current config
notify(c) ==
    /\ call[c].pc = "notify"
    /\ call' = [call EXCEPT ![c] = [@ EXCEPT !.pc = "decrypt", !.newConfig = currentConfig]]
    /\ UNCHANGED <<storage, configField, consumers, fwd, dataPlane>>

\* lines 341-347: the components outside the updated namespace are marked
MarkSkipUpdate(configuration, namespace) ==
    [configuration EXCEPT !.components =
        MapSeq(configuration.components, LAMBDA m :
            IF namespace # "" /\ m.namespace # namespace
            THEN [m EXCEPT !.skipUpdate = TRUE] ELSE m)]

\* a getter that hands out the object of the field itself: what is done to the
\* object handed out is done to the field
currentConfigShared(field, mutated) ==
    IF field.defined THEN [field EXCEPT !.config = mutated] ELSE field

\* lines 50-52: the getter hands out a deep copy, so the field keeps its value
\* whatever is done (decryption, skipUpdate marks) to the object handed out
currentConfigCopied(field, mutated) == field

\* how a notification may end: all went well, the decryption of the secrets
\* failed, or a handler of 'change' rejected
NotifyOutcomes == {"ok", "DecryptError", "HandlerError"}

\* lines 280-283 and 186-187: the promise of the call resolves, with the
\* validated declaration (options.expanded is left at its default), and that
\* of a namespace update with the namespace of it
Resolved(rec) ==
    [rec EXCEPT !.pc = "resolved",
                !.returned =
                    IF rec.api = "processNamespaceDeclaration"
                    THEN [kind |-> "member", declaration |-> BASE_DECLARATION,
                          member |-> Member(rec.storageData, rec.namespaceToUpdate)]
                    ELSE [kind |-> "declaration", declaration |-> rec.storageData,
                          member |-> NoMember]]

\* a catch handler of the notification that logs the error and passes it on
NotifyFailedRethrown(rec, c, error) ==
    Rejected([rec EXCEPT !.notifyError = error], c, error)

\* lines 350-352: the error of the notification is logged and swallowed
NotifyFailed(rec, c, error) == Resolved([rec EXCEPT !.notifyError = error])

\* lines 339-353 and 280-283: secrets are decrypted, 'change' is emitted and its
\* handlers run; a failure of the decryption, or of a handler, is logged and
\* swallowed (the handler that rejects is not the one that loads the consumers)
notifyConfigChange(c) ==
    /\ call[c].pc = "decrypt"
    /\ \E outcome \in NotifyOutcomes :
          IF outcome # "DecryptError"
          THEN LET decryptedConfig ==
                       MarkSkipUpdate(decryptSecrets(call[c].newConfig),
                                      call[c].namespaceToUpdate)
                   emitted ==
                       Emit([call[c] EXCEPT
                                 !.change = [emitted |-> TRUE,
                                             config |-> decryptedConfig,
                                             setConfigOpts |-> call[c].namespaceToUpdate]],
                            c, "change")
               IN /\ call' = [call EXCEPT ![c] =
                        IF outcome = "ok" THEN Resolved(emitted)
                        ELSE NotifyFailed(emitted, c, outcome)]
                  /\ consumers' = loadConsumers(decryptedConfig, consumers)
                  /\ configField' = currentConfigCopied(configField, decryptedConfig)
          ELSE /\ call' = [call EXCEPT ![c] = NotifyFailed(@, c, outcome)]
               /\ consumers' = consumers
               /\ configField' = configField
    /\ UNCHANGED <<storage, fwd, dataPlane>>

Next ==
    \E c \in Calls :
        \/ \E d \in Declarations, save \in BOOLEAN : processDeclaration(c, d, save)
        \/ \E d \in NamespaceDeclarations, n \in NamespaceSet :
               processNamespaceDeclaration(c, d, n)
        \/ load(c)
        \/ getDeclaration(c)
        \/ validate(c)
        \/ expandDeclaration(c)
        \/ normalize(c)
        \/ setConfig(c)
        \/ saveToStorage(c)
        \/ notify(c)
        \/ notifyConfigChange(c)

Spec == Init /\ [][Next]_vars

(***************************************************************************)
(* Reads and namespace updates over a stored declaration in which a name   *)
(* is taken by an object of the default namespace.                         *)
(***************************************************************************)
\* a declaration whose default namespace holds a listener named as the
\* namespace NsB would be, beside the namespace NsA
NameTakenDeclaration ==
    Declaration(<< Obj("NsB", LISTENER_CLASS, "unset", "none", <<>>, "none") >>,
                Namespace(PullBody("unset")), Absent)

DeclareStoredAtStart ==
    { [defined |-> FALSE, raw |-> BASE_DECLARATION],
      [defined |-> TRUE, raw |-> Validated(NameTakenDeclaration)] }

DeclareInit ==
    /\ storage \in DeclareStoredAtStart
    /\ configField = [defined |-> FALSE, config |-> BASE_CONFIG]
    /\ call = [c \in Calls |-> IdleCall]
    /\ consumers = <<>>
    /\ fwd = NoForward
    /\ eventListener = NoListeners
    /\ receiver = NewReceiver
    /\ tokenCache = EmptyTokenCache
    /\ kafka = NoKafka
    /\ pure = NoEvaluation

DeclareNext ==
    \E c \in Calls :
        \/ \E n \in {""} \cup NamespaceSet : getDeclarationOf(c, n)
        \/ getStorageData(c)
        \/ \E n \in NamespaceSet :
               processNamespaceDeclaration(c, Namespace(PushBody("unset")), n)
        \/ getDeclaration(c)
        \/ validate(c)
        \/ expandDeclaration(c)
        \/ normalize(c)
        \/ setConfig(c)
        \/ saveToStorage(c)
        \/ notify(c)
        \/ notifyConfigChange(c)

DeclareSpec == DeclareInit /\ [][DeclareNext]_vars

(***************************************************************************)
(* dataPipeline.forward                                                    *)
(***************************************************************************)
\* a forward without the filter on the destinations
forwardTargetsUnfiltered(loaded, destinationIds) == loaded

\* a forward that stops at the first destination it finds
forwardTargetsFirstOnly(loaded, destinationIds) ==
    LET found == SelectSeq(loaded, LAMBDA id : id \in destinationIds)
    IN IF found = <<>> THEN <<>> ELSE <<Head(found)>>

\* line 30: the loaded consumers whose id is among the destinations
forwardTargets(loaded, destinationIds) ==
    SelectSeq(loaded, LAMBDA id : id \in destinationIds)

\* the consumer call placed inside the try block of the actions
consumerSkippedOnActionError(threwInActions) == ~threwInActions

\* lines 44-59: the consumer function is called whether or not the processing
\* of the actions threw
consumerCalled(threwInActions) == TRUE

\* lines 33-61: how many times each loaded consumer is called for the record
Invocations(loaded, targets, actionThrows) ==
    [id \in Range(loaded) |->
        Cardinality({i \in 1..Len(targets) :
            targets[i] = id /\ consumerCalled(id \in actionThrows)})]

\* lines 53-59: a consumer that did not throw may have returned a promise: its
\* send is in progress, nothing waits for it
SendsStarted(invoked, consumerThrows, asyncSends) ==
    {id \in DOMAIN invoked : invoked[id] > 0 /\ id \notin consumerThrows /\ id \in asyncSends}

\* consumer.config.actions: the actions of a consumer of the model, in the
\* order the user gave them
ConsumerActions == <<"setTag", "excludeData">>

\* a forward that hands processActions a copy of the event and takes the
\* copy only when every action went through
processActionsOnCopy(actions, throwAt) ==
    IF throwAt = 0 THEN actions ELSE <<>>

\* line 46: actionProcessor.processActions(context.event, actions) works on
\* the event it is handed (its return value is not used) and applies the
\* actions from left to right; when action number throwAt throws (0: none),
\* the actions before it have been applied to the event.  The result is the
\* list of the actions applied to context.event
processActions(actions, throwAt) ==
    IF throwAt = 0 THEN actions ELSE SubSeq(actions, 1, throwAt - 1)

\* lines 36-59: the actions applied to the event each called consumer is
\* handed in its context
EventsHanded(invoked, actionThrows, throwAt) ==
    [id \in DOMAIN invoked |->
        IF invoked[id] = 0 THEN <<>>
        ELSE processActions(ConsumerActions,
                            IF id \in actionThrows THEN throwAt ELSE 0)]

\* lines 25-62: runs synchronously up to the return of the promise
forwardData(destinationIds, actionThrows, throwAt, consumerThrows, asyncSends) ==
    /\ fwd.state = "idle"
    /\ LET targets == forwardTargets(consumers, destinationIds)
           invoked == Invocations(consumers, targets, actionThrows)
       IN fwd' = [state |-> "dispatched",
                  applied |-> EventsHanded(invoked, actionThrows, throwAt),
                  destinationIds |-> destinationIds,
                  invoked |-> invoked,
                  threwInActions |-> actionThrows \cap Range(targets),
                  threwInConsumer |-> {id \in DOMAIN invoked :
                                         invoked[id] > 0 /\ id \in consumerThrows},
                  sending |-> SendsStarted(invoked, consumerThrows, asyncSends)]
    /\ UNCHANGED <<storage, configField, call, consumers, dataPlane>>

\* line 33: every wrapper promise has settled, the promise of forward resolves
allSettled ==
    /\ fwd.state = "dispatched"
    /\ fwd' = [fwd EXCEPT !.state = "resolved"]
    /\ UNCHANGED <<storage, configField, call, consumers, dataPlane>>

\* the send a consumer started completes or fails, on its own time
sendCompleted(id) ==
    /\ id \in fwd.sending
    /\ fwd' = [fwd EXCEPT !.sending = @ \ {id}]
    /\ UNCHANGED <<storage, configField, call, consumers, dataPlane>>

\* the record is done with; the pipeline takes the next one
nextRecord ==
    /\ fwd.state = "resolved"
    /\ fwd.sending = {}
    /\ fwd' = NoForward
    /\ UNCHANGED <<storage, configField, call, consumers, dataPlane>>

\* the ids a record's destinationIds may hold: the push consumers of each
\* namespace, and one id that is no loaded consumer
ConsumerIds ==
    {<<n, "My_Consumer">> : n \in {DEFAULT_NAMESPACE} \cup NamespaceSet}

DestinationIds == ConsumerIds \cup {<<DEFAULT_NAMESPACE, "My_Pull_Consumer">>}

\* declarations with push consumers in one, two or three namespaces
PipelineDeclarations ==
    { Declaration(PushBody(e), a, b) :
        e \in {"unset", "false"},
        a \in {Absent, Namespace(PushBody("unset"))},
        b \in {Absent, Namespace(PushBody("unset"))} }

\* a running pipeline: the consumers of an applied declaration are loaded
PipelineInit ==
    /\ storage = [defined |-> FALSE, raw |-> BASE_DECLARATION]
    /\ call = [c \in Calls |-> IdleCall]
    /\ fwd = NoForward
    /\ eventListener = NoListeners
    /\ receiver = NewReceiver
    /\ tokenCache = EmptyTokenCache
    /\ kafka = NoKafka
    /\ pure = NoEvaluation
    /\ \E d \in PipelineDeclarations :
          LET conf == normalizeDeclaration(Expanded(Validated(d)))
          IN /\ configField = [defined |-> TRUE, config |-> conf]
             /\ consumers = loadConsumers(decryptSecrets(conf), <<>>)

PipelineNext ==
    \/ \E destinationIds \in SUBSET DestinationIds,
          actionThrows \in SUBSET ConsumerIds,
          consumerThrows \in SUBSET ConsumerIds,
          asyncSends \in SUBSET ConsumerIds,
          throwAt \in 1..Len(ConsumerActions) :
             forwardData(destinationIds, actionThrows, throwAt, consumerThrows,
                         asyncSends)
    \/ allSettled
    \/ \E id \in ConsumerIds : sendCompleted(id)
    \/ nextRecord

PipelineSpec == PipelineInit /\ [][PipelineNext]_vars

(***************************************************************************)
(* Google Cloud utilities: TokenCache.                                     *)
(***************************************************************************)
\* the clock of the model stops here
MaxNow == 90

\* line 34: seconds added as a buffer to the expected expiry time of a token
latencyBuffer == 60

\* a validity test that accepts a token up to and including the buffer
tokenIsValidInclusive(token, now) ==
    /\ token.defined
    /\ token.expiresAt >= now + latencyBuffer

\* lines 71-75
tokenIsValid(token, now) ==
    /\ token.defined
    /\ token.expiresAt > now + latencyBuffer

\* lines 93-95
removeToken(cache, tokenId) == [cache EXCEPT ![tokenId] = NoToken]

\* a prune that removes nothing
removeExpiredTokensNone(cache, now) == cache

\* lines 80-86
removeExpiredTokens(cache, now) ==
    [t \in DOMAIN cache |->
        IF ~tokenIsValid(cache[t], now) THEN removeToken(cache, t)[t] ELSE cache[t]]

\* lines 44-50, on the state tc: prune, then store the token with its expiry
\* time
cacheTokenIn(tc, tokenId, token) ==
    LET pruned == removeExpiredTokens(tc.cache, tc.now)
        expiresAt == tc.now + token.expires_in
        entry == [defined |-> TRUE, access_token |-> token.access_token,
                  expires_in |-> token.expires_in, expiresAt |-> expiresAt]
        after == [pruned EXCEPT ![tokenId] = entry]
    IN [tc EXCEPT
           !.cache = after,
           !.result = [op |-> "cacheToken", tokenId |-> tokenId,
                       at |-> tc.now, returned |-> entry,
                       before |-> tc.cache, after |-> after]]

\* lines 44-50: prune, then store the token with its expiry time
cacheToken(tokenId, token) ==
    /\ tokenCache' = cacheTokenIn(tokenCache, tokenId, token)
    /\ UNCHANGED <<configPlane, eventListener, receiver>>

\* lines 58-61
getToken(tokenId) ==
    /\ LET token == tokenCache.cache[tokenId]
       IN tokenCache' = [tokenCache EXCEPT
              !.result = [op |-> "getToken", tokenId |-> tokenId,
                          at |-> tokenCache.now,
                          returned |-> IF tokenIsValid(token, tokenCache.now)
                                       THEN token ELSE NoToken,
                          before |-> tokenCache.cache, after |-> tokenCache.cache]]
    /\ UNCHANGED <<configPlane, eventListener, receiver>>

\* lines 203-206
invalidateToken(tokenId) ==
    /\ tokenCache.cache[tokenId].defined
    /\ LET after == removeToken(tokenCache.cache, tokenId)
       IN tokenCache' = [tokenCache EXCEPT
              !.cache = after,
              !.sinceInvalidate[tokenId] = "invalidated",
              !.result = [op |-> "invalidateToken", tokenId |-> tokenId,
                          at |-> tokenCache.now, returned |-> NoToken,
                          before |-> tokenCache.cache, after |-> after]]
    /\ UNCHANGED <<configPlane, eventListener, receiver>>

\* getCurrentUnixTimeInSeconds: time passes
clockTick(seconds) ==
    /\ tokenCache.now + seconds <= MaxNow
    /\ tokenCache' = [tokenCache EXCEPT !.now = @ + seconds]
    /\ UNCHANGED <<configPlane, eventListener, receiver>>

TokenInit ==
    /\ storage = [defined |-> FALSE, raw |-> BASE_DECLARATION]
    /\ configField = [defined |-> FALSE, config |-> BASE_CONFIG]
    /\ call = [c \in Calls |-> IdleCall]
    /\ consumers = <<>>
    /\ fwd = NoForward
    /\ eventListener = NoListeners
    /\ receiver = NewReceiver
    /\ tokenCache = EmptyTokenCache
    /\ kafka = NoKafka
    /\ pure = NoEvaluation

TokenNext ==
    \/ \E tokenId \in TokenIds, token \in Tokens : cacheToken(tokenId, token)
    \/ \E tokenId \in TokenIds : getToken(tokenId)
    \/ \E tokenId \in TokenIds : invalidateToken(tokenId)
    \/ \E seconds \in Ticks : clockTick(seconds)

TokenSpec == TokenInit /\ [][TokenNext]_vars

(***************************************************************************)
(* getAccessToken: the cache in front of the token service.                *)
(***************************************************************************)

\* a token id that is the private key id whatever the authentication is
getTokenIdPrivateKey(serviceAccount) == serviceAccount.privateKeyId

\* lines 117-122
getTokenId(serviceAccount) ==
    IF ~serviceAccount.useServiceAccountToken
    THEN serviceAccount.privateKeyId
    ELSE serviceAccount.serviceEmail

\* a cache that never answers
cacheHitNever(token, now) == FALSE

\* lines 140-141: the cached token is valid and has an access token
cacheHit(token, now) == tokenIsValid(token, now) /\ token.access_token # ""

\* lines 138-191, up to the request: a hit resolves with the cached access
\* token; a miss builds the request and sends it
getAccessToken(q, serviceAccount) ==
    /\ tokenCache.pending[q].state = "idle"
    /\ \A p \in Requests : p < q => tokenCache.pending[p].state # "idle"
    /\ LET tokenId == getTokenId(serviceAccount)
           cachedToken == tokenCache.cache[tokenId]
           hit == cacheHit(cachedToken, tokenCache.now)
           resolved == IF hit THEN cachedToken.access_token ELSE ""
       IN tokenCache' = [tokenCache EXCEPT
              !.pending[q] = [state |-> IF hit THEN "resolved" ELSE "requested",
                              account |-> IF serviceAccount.useServiceAccountToken
                                          THEN "metadata" ELSE "key",
                              tokenId |-> tokenId, resolved |-> resolved],
              !.sinceInvalidate[tokenId] = "none",
              !.access = [op |-> "getAccessToken", request |-> q,
                          tokenId |-> tokenId, at |-> tokenCache.now,
                          requested |-> ~hit, resolved |-> resolved,
                          sinceInvalidate |-> tokenCache.sinceInvalidate[tokenId],
                          before |-> tokenCache.cache,
                          after |-> tokenCache.cache]]
    /\ UNCHANGED <<configPlane, eventListener, receiver>>

\* lines 191-192: the token service answered; the token is cached and the
\* call resolves with its access token
requestResolved(q, token) ==
    /\ tokenCache.pending[q].state = "requested"
    /\ LET tokenId == tokenCache.pending[q].tokenId
           cached == cacheTokenIn(tokenCache, tokenId, token)
       IN tokenCache' = [cached EXCEPT
              !.pending[q].state = "resolved",
              !.pending[q].resolved = cached.cache[tokenId].access_token,
              !.sinceInvalidate[tokenId] =
                  IF @ = "invalidated" THEN "recached" ELSE @,
              !.access = [op |-> "requestResolved", request |-> q,
                          tokenId |-> tokenId, at |-> tokenCache.now,
                          requested |-> FALSE,
                          resolved |-> cached.cache[tokenId].access_token,
                          sinceInvalidate |-> tokenCache.sinceInvalidate[tokenId],
                          before |-> tokenCache.cache,
                          after |-> cached.cache]]
    /\ UNCHANGED <<configPlane, eventListener, receiver>>

\* line 191: the request failed; the call rejects and nothing is cached
requestRejected(q) ==
    /\ tokenCache.pending[q].state = "requested"
    /\ tokenCache' = [tokenCache EXCEPT
           !.pending[q].state = "rejected",
           !.access = [op |-> "requestRejected", request |-> q,
                       tokenId |-> tokenCache.pending[q].tokenId,
                       at |-> tokenCache.now,
                       requested |-> FALSE, resolved |-> "",
                       sinceInvalidate |-> "none",
                       before |-> tokenCache.cache,
                       after |-> tokenCache.cache]]
    /\ UNCHANGED <<configPlane, eventListener, receiver>>

\* the token service of the access model answers with one of these
ServiceTokens == [access_token : AccessTokens, expires_in : {60, 120}]

AccessInit == TokenInit

AccessNext ==
    \/ \E q \in Requests, a \in ServiceAccounts : getAccessToken(q, a)
    \/ \E q \in Requests, token \in ServiceTokens : requestResolved(q, token)
    \/ \E q \in Requests : requestRejected(q)
    \/ \E a \in ServiceAccounts : invalidateToken(getTokenId(a))
    \/ \E seconds \in Ticks : clockTick(seconds)

AccessSpec == AccessInit /\ [][AccessNext]_vars

(***************************************************************************)
(* Event listener: one data receiver (TCP, UDP, dual UDP), its life cycle. *)
(***************************************************************************)
\* start attempts made in one behaviour
MaxStarts == 12

\* consecutive restarts before the subsystem gives up
RESTART_ATTEMPTS == 10

isRunning(r) == r.state = "RUNNING"

OpenSockets(r) ==
    {s \in SocketsOf(r.kind) : r.sockets[s] \in {"opening", "listening"}}

\* a stop of a receiver that was never started leaves it destroyed
FinishedNeverStartedDestroyed(r, after) ==
    IF r.destroyRequested \/ after = "destroyed" \/ r.starts = 0
    THEN [r EXCEPT !.state = "DESTROYED", !.after = "none",
                   !.stopResult = IF after = "stopped" THEN "resolved" ELSE @]
    ELSE [r EXCEPT !.state = "STOPPED", !.after = "none", !.stopResult = "resolved"]

\* every socket is closed: the receiver takes the state its operation ends in;
\* a destroy requested in the meantime wins
Finished(r, after) ==
    IF r.destroyRequested \/ after = "destroyed"
    THEN [r EXCEPT !.state = "DESTROYED", !.after = "none",
                   !.stopResult = IF after = "stopped" THEN "resolved" ELSE @]
    ELSE IF after = "stopped"
    THEN [r EXCEPT !.state = "STOPPED", !.after = "none", !.stopResult = "resolved"]
    ELSE IF after = "restart"
    THEN [r EXCEPT !.state = "RESTARTING", !.after = "none", !.timer = TRUE]
    ELSE [r EXCEPT !.state = "FAILED_TO_START", !.after = "none"]

\* socket.close() is called on every socket that was opened
Close(r, state, after) ==
    LET open == OpenSockets(r)
        closing == [r EXCEPT !.state = state,
                             !.after = after,
                             !.closes = @ + Cardinality(open),
                             !.sockets = [s \in AllSockets |->
                                             IF s \in open THEN "closing" ELSE r.sockets[s]]]
    IN IF open = {} THEN Finished(closing, after) ELSE closing

\* socket.listen() / socket.bind() is called on every socket of the receiver
Listen(r) ==
    [r EXCEPT !.state = "STARTING",
              !.sockets = [s \in AllSockets |->
                              IF s \in SocketsOf(r.kind) THEN "opening" ELSE "none"],
              !.listens = @ + Cardinality(SocketsOf(r.kind)),
              !.starts = @ + 1]

\* a retry policy without a limit
restartAllowedAlways(r) == ~r.destroyRequested

\* at most RESTART_ATTEMPTS consecutive restarts
restartAllowed(r) == ~r.destroyRequested /\ r.restarts < RESTART_ATTEMPTS

\* a pending restart that reopens the socket whatever happened meanwhile
restartMayReopenAlways(r) == TRUE

\* a restart does not reopen the socket of a receiver that is being destroyed
restartMayReopen(r) == ~r.destroyRequested

\* start(): the sockets are created and asked to listen
start ==
    /\ receiver.state \in {"NEW", "STOPPED", "FAILED_TO_START"}
    /\ ~receiver.destroyRequested
    /\ receiver.starts < MaxStarts
    /\ receiver' = [Listen(receiver) EXCEPT
                        !.startResult = "pending",
                        !.restarts = 0,
                        !.apply = IF receiver.apply = "none" THEN "pending" ELSE @]
    /\ UNCHANGED <<configPlane, eventListener, tokenCache>>

\* a receiver that is active as soon as one of its sockets listens
activeWhenAnyListens(r) == \E o \in SocketsOf(r.kind) : r.sockets[o] = "listening"

\* every socket of the receiver listens
active(r) == \A o \in SocketsOf(r.kind) : r.sockets[o] = "listening"

\* a socket reports 'listening'; when all of them did the receiver is RUNNING,
\* unless it is to be destroyed
socketListening(s) ==
    /\ receiver.state = "STARTING"
    /\ receiver.sockets[s] = "opening"
    /\ LET r == [receiver EXCEPT !.sockets[s] = "listening"]
       IN receiver' =
            IF ~ active(r) THEN r
            ELSE IF r.destroyRequested THEN Close(r, "DESTROYING", "destroyed")
            ELSE [r EXCEPT !.state = "RUNNING",
                           !.restarts = 0,
                           !.startResult = IF @ = "pending" THEN "resolved" ELSE @,
                           !.apply = IF @ = "pending" THEN "resolved" ELSE @]
    /\ UNCHANGED <<configPlane, eventListener, tokenCache>>

\* a socket is closed or raises an error before it is active: the start fails
socketFailed(s) ==
    /\ receiver.state = "STARTING"
    /\ receiver.sockets[s] = "opening"
    /\ receiver' = Close([receiver EXCEPT
                             !.startResult = IF @ = "pending" THEN "rejected" ELSE @],
                         "STOPPING", "failed")
    /\ UNCHANGED <<configPlane, eventListener, tokenCache>>

\* a socket reports 'close'
socketClosed(s) ==
    /\ receiver.sockets[s] = "closing"
    /\ LET r == [receiver EXCEPT !.sockets[s] = "none"]
       IN receiver' =
            IF \E o \in SocketsOf(r.kind) : r.sockets[o] = "closing" THEN r
            ELSE Finished(r, r.after)
    /\ UNCHANGED <<configPlane, eventListener, tokenCache>>

\* stop()
stop ==
    /\ receiver.state \in {"NEW", "RUNNING", "STOPPED", "FAILED_TO_START"}
    /\ ~receiver.destroyRequested
    /\ receiver' = Close([receiver EXCEPT !.stopResult = "pending"],
                         "STOPPING", "stopped")
    /\ UNCHANGED <<configPlane, eventListener, tokenCache>>

\* destroy(): what is in progress is let to finish, then everything is closed
destroy ==
    /\ ~receiver.destroyRequested
    /\ receiver.state # "DESTROYED"
    /\ LET r == [receiver EXCEPT !.destroyRequested = TRUE]
       IN receiver' =
            IF r.state = "STARTING" \/ r.after # "none" THEN r
            ELSE Close(r, "DESTROYING", "destroyed")
    /\ UNCHANGED <<configPlane, eventListener, tokenCache>>

\* an error of a socket: safeRestart() closes, waits and reopens; it does
\* nothing on a receiver that is not running or is to be destroyed
safeRestart(s) ==
    /\ receiver.sockets[s] \in {"listening", "closing"}
    /\ receiver.starts < MaxStarts
    /\ receiver' =
          IF isRunning(receiver) /\ ~receiver.destroyRequested
          THEN Close([receiver EXCEPT !.restarts = @ + 1], "RESTARTING", "restart")
          ELSE [receiver EXCEPT !.ignored = @ \/ receiver.destroyRequested]
    /\ UNCHANGED <<configPlane, eventListener, tokenCache>>

\* RESTART_DELAY has passed: the restart reopens the sockets
restartDelayElapsed ==
    /\ receiver.timer
    /\ receiver' =
          IF restartMayReopen(receiver)
          THEN Listen([receiver EXCEPT !.timer = FALSE])
          ELSE [receiver EXCEPT !.timer = FALSE, !.ignored = TRUE]
    /\ UNCHANGED <<configPlane, eventListener, tokenCache>>

\* a failed start is followed by another restart() ...
restart ==
    /\ receiver.state = "FAILED_TO_START"
    /\ receiver.apply # "none"
    /\ restartAllowed(receiver)
    /\ receiver.starts < MaxStarts
    /\ receiver' = [receiver EXCEPT !.restarts = @ + 1,
                                    !.state = "RESTARTING",
                                    !.timer = TRUE]
    /\ UNCHANGED <<configPlane, eventListener, tokenCache>>

\* ... until the attempts are used up: the receiver is given up and destroyed
giveUp ==
    /\ receiver.state = "FAILED_TO_START"
    /\ receiver.apply # "none"
    /\ ~receiver.destroyRequested
    /\ ~restartAllowed(receiver)
    /\ receiver' = [receiver EXCEPT !.state = "DESTROYED",
                                    !.destroyRequested = TRUE,
                                    !.gaveUp = TRUE,
                                    !.apply = "resolved"]
    /\ UNCHANGED <<configPlane, eventListener, tokenCache>>

ReceiverInit ==
    /\ storage = [defined |-> FALSE, raw |-> BASE_DECLARATION]
    /\ configField = [defined |-> FALSE, config |-> BASE_CONFIG]
    /\ call = [c \in Calls |-> IdleCall]
    /\ consumers = <<>>
    /\ fwd = NoForward
    /\ eventListener = NoListeners
    /\ tokenCache = EmptyTokenCache
    /\ kafka = NoKafka
    /\ pure = NoEvaluation
    /\ \E kind \in ReceiverKinds : receiver = Receiver(kind)

ReceiverNext ==
    \/ start
    \/ \E s \in AllSockets : socketListening(s)
    \/ \E s \in AllSockets : socketFailed(s)
    \/ \E s \in AllSockets : socketClosed(s)
    \/ stop
    \/ destroy
    \/ \E s \in AllSockets : safeRestart(s)
    \/ restartDelayElapsed
    \/ restart
    \/ giveUp

ReceiverSpec == ReceiverInit /\ [][ReceiverNext]_vars

(***************************************************************************)
(* Event listener: the data of the senders of one running receiver.        *)
(***************************************************************************)
\* data sent by one sender in one behaviour
MaxData == 3

\* two senders: the same address, different ports; on a dual UDP receiver the
\* second one sends over IPv6
Senders(kind) ==
    IF kind = "tcp"
    THEN << [socket |-> "tcp", address |-> "localhost10", port |-> 6515],
            [socket |-> "tcp", address |-> "localhost10", port |-> 6516] >>
    ELSE IF kind = "udp"
    THEN << [socket |-> "udp4", address |-> "localhost10", port |-> 6515],
            [socket |-> "udp4", address |-> "localhost10", port |-> 6516] >>
    ELSE << [socket |-> "udp4", address |-> "localhost10", port |-> 6515],
            [socket |-> "udp6", address |-> "::localhost10", port |-> 6516] >>

\* a key made of the protocol and the address only
getConnKeyNoPort(socket, info) == <<socket, info.address, 0>>

\* getConnKey: '<proto>-<addr>-<port>'
getConnKey(socket, info) == <<socket, info.address, info.port>>

\* a hand-over that takes the newest datum first
nextToDeliverNewest(queue) == Len(queue)

\* the data are handed over in the order of their 'data' events
nextToDeliver(queue) == 1

\* a datum arrives on a connection: the receiver emits 'data' with the key of
\* the connection
socketData(i) ==
    /\ isRunning(receiver)
    /\ i \in 1..Len(Senders(receiver.kind))
    /\ receiver.sent[i] < MaxData
    /\ LET sender == Senders(receiver.kind)[i]
       IN /\ receiver.sockets[sender.socket] = "listening"
          /\ receiver' = [receiver EXCEPT
                 !.sent[i] = @ + 1,
                 !.emitted = Append(@, [data |-> <<i, receiver.sent[i] + 1>>,
                                        senderKey |-> getConnKey(sender.socket, sender)])]
    /\ UNCHANGED <<configPlane, eventListener, tokenCache>>

\* the next datum is handed to the consumer
deliver ==
    /\ receiver.emitted # <<>>
    /\ LET n == nextToDeliver(receiver.emitted)
       IN receiver' = [receiver EXCEPT
              !.delivered = Append(@, receiver.emitted[n]),
              !.emitted = SubSeq(receiver.emitted, 1, n - 1)
                              \o SubSeq(receiver.emitted, n + 1, Len(receiver.emitted))]
    /\ UNCHANGED <<configPlane, eventListener, tokenCache>>

\* a receiver that was started and is RUNNING
RunningReceiver(kind) ==
    [Listen(Receiver(kind)) EXCEPT
        !.state = "RUNNING",
        !.sockets = [s \in AllSockets |->
                        IF s \in SocketsOf(kind) THEN "listening" ELSE "none"],
        !.startResult = "resolved"]

DataInit ==
    /\ storage = [defined |-> FALSE, raw |-> BASE_DECLARATION]
    /\ configField = [defined |-> FALSE, config |-> BASE_CONFIG]
    /\ call = [c \in Calls |-> IdleCall]
    /\ consumers = <<>>
    /\ fwd = NoForward
    /\ eventListener = NoListeners
    /\ tokenCache = EmptyTokenCache
    /\ kafka = NoKafka
    /\ pure = NoEvaluation
    /\ \E kind \in ReceiverKinds : receiver = RunningReceiver(kind)

DataNext ==
    \/ \E i \in 1..2 : socketData(i)
    \/ deliver

DataSpec == DataInit /\ [][DataNext]_vars

(***************************************************************************)
(* Event listener: the listeners and the receivers manager on 'change',    *)
(* and the dispatch of the frames of a port to the listeners of the port.  *)
(***************************************************************************)
\* 'change' events handled in one behaviour
MaxChanges == 3

\* a listener as a configuration holds it: a port, an enable flag and a match
\* pattern ("" when there is none)
Listener(port, enable, match) ==
    [present |-> TRUE, port |-> port, enable |-> enable, match |-> match]

\* the configurations a 'change' event may carry: per listener id, absent or
\* one of a few listeners
ListenerChoices(id) ==
    {AbsentListener} \cup
    IF id = <<DEFAULT_NAMESPACE, "Listener1">>
    THEN {Listener(1234, TRUE, ""), Listener(1234, TRUE, "somePattern"),
          Listener(6514, TRUE, ""), Listener(1234, FALSE, "")}
    ELSE IF id = <<DEFAULT_NAMESPACE, "Listener2">>
    THEN {Listener(1234, TRUE, "somePattern"), Listener(6514, TRUE, "somePattern")}
    ELSE {Listener(1234, TRUE, ""), Listener(6514, TRUE, "")}

ListenerConfigs ==
    {[id \in ListenerIds |-> IF id = ListenerOrder[1] THEN a
                              ELSE IF id = ListenerOrder[2] THEN b ELSE c] :
        a \in ListenerChoices(ListenerOrder[1]),
        b \in ListenerChoices(ListenerOrder[2]),
        c \in ListenerChoices(ListenerOrder[3])}

\* the frames received on a port: the raw text and the patterns it matches
Frames ==
    { [raw |-> "1234", keywords |-> {}],
      [raw |-> "virtual_name=\"somePattern\"", keywords |-> {"somePattern"}] }

\* a component outside the namespace being updated carries skipUpdate
skipUpdate(id, namespace) == namespace # "" /\ id[1] # namespace

\* a listener that is created anew on every change of its configuration
listenerRecreated(instance, c, stream, n) ==
    [defined |-> TRUE, port |-> c.port, match |-> c.match, stream |-> stream,
     created |-> n, updates |-> 2]

\* an existing listener is updated in place: updateConfig is called on it
listenerUpdated(instance, c, stream, n) ==
    [instance EXCEPT !.port = c.port, !.match = c.match, !.stream = stream,
                     !.updates = @ + 1]

\* a new listener: its constructor and the handler each call updateConfig
listenerCreated(c, stream, n) ==
    [defined |-> TRUE, port |-> c.port, match |-> c.match, stream |-> stream,
     created |-> n, updates |-> 2]

\* a manager that never removes a receiver
inactiveNever(instances, port) == FALSE

\* a receiver no listener is subscribed to
inactive(instances, port) ==
    ~\E id \in ListenerIds : instances[id].defined /\ instances[id].port = port

\* getMessageStream(port): the registered receiver of the port, or a new one
getMessageStream(registered, port, n) ==
    IF registered[port].defined THEN registered[port]
    ELSE [defined |-> TRUE, stream |-> n, starts |-> 0, running |-> FALSE]

\* the 'change' handler: listeners removed from the configuration or disabled
\* are removed; the others, unless marked skipUpdate, are created or updated
\* and subscribed to the receiver of their port; receivers without listeners
\* are destroyed and unregistered; receivers not yet running are started
onChange(config, namespace) ==
    /\ eventListener.changes < MaxChanges
    /\ \A id \in ListenerIds :
          skipUpdate(id, namespace) => config[id] = eventListener.config[id]
    /\ LET n == eventListener.changes + 1
           kept == [id \in ListenerIds |->
                       IF config[id].present /\ config[id].enable
                       THEN eventListener.instances[id] ELSE NoListener]
           streams == [port \in Ports |->
                          IF \E id \in ListenerIds :
                                 /\ config[id].present /\ config[id].enable
                                 /\ ~skipUpdate(id, namespace)
                                 /\ config[id].port = port
                          THEN getMessageStream(eventListener.registered, port, n)
                          ELSE eventListener.registered[port]]
           instances == [id \in ListenerIds |->
                            IF ~(config[id].present /\ config[id].enable)
                               \/ skipUpdate(id, namespace)
                            THEN kept[id]
                            ELSE IF kept[id].defined
                            THEN listenerUpdated(kept[id], config[id],
                                                 streams[config[id].port].stream, n)
                            ELSE listenerCreated(config[id],
                                                 streams[config[id].port].stream, n)]
           removed == {port \in Ports :
                          streams[port].defined /\ inactive(instances, port)}
           registered == [port \in Ports |->
                             IF port \in removed \/ ~streams[port].defined THEN NoStream
                             ELSE IF streams[port].running THEN streams[port]
                             ELSE [streams[port] EXCEPT !.running = TRUE,
                                                        !.starts = @ + 1]]
       IN eventListener' =
            [instances |-> instances,
             registered |-> registered,
             config |-> config,
             namespaceToUpdate |-> namespace,
             changes |-> n,
             destroyed |-> eventListener.destroyed + Cardinality(removed),
             frame |-> NoFrame,
             records |-> {}]
    /\ UNCHANGED <<configPlane, receiver, tokenCache>>

\* a listener that lets every frame through
frameAcceptedAlways(instance, frame) == TRUE

\* the match filter of a listener
frameAccepted(instance, frame) ==
    instance.match = "" \/ instance.match \in frame.keywords

\* 'messages' on the receiver of a port: every listener subscribed to it
\* emits its own record, unless its filter rejects the frame
messages(port, frame) ==
    /\ eventListener.registered[port].defined
    /\ eventListener.registered[port].running
    /\ eventListener' =
          [eventListener EXCEPT
              !.frame = [port |-> port, raw |-> frame.raw, keywords |-> frame.keywords],
              !.records =
                  {[sourceId |-> id, data |-> frame.raw] :
                      id \in {i \in ListenerIds :
                                 /\ eventListener.instances[i].defined
                                 /\ eventListener.instances[i].stream
                                        = eventListener.registered[port].stream
                                 /\ eventListener.instances[i].port = port
                                 /\ frameAccepted(eventListener.instances[i], frame)}}]
    /\ UNCHANGED <<configPlane, receiver, tokenCache>>

ListenerInit ==
    /\ storage = [defined |-> FALSE, raw |-> BASE_DECLARATION]
    /\ configField = [defined |-> FALSE, config |-> BASE_CONFIG]
    /\ call = [c \in Calls |-> IdleCall]
    /\ consumers = <<>>
    /\ fwd = NoForward
    /\ eventListener = NoListeners
    /\ receiver = NewReceiver
    /\ tokenCache = EmptyTokenCache
    /\ kafka = NoKafka
    /\ pure = NoEvaluation

ListenerNext ==
    \/ \E config \in ListenerConfigs, namespace \in {"", DEFAULT_NAMESPACE, "New"} :
           onChange(config, namespace)
    \/ \E port \in Ports, frame \in Frames : messages(port, frame)

ListenerSpec == ListenerInit /\ [][ListenerNext]_vars

(***************************************************************************)
(* Kafka consumer: one client per connection configuration.                *)
(***************************************************************************)
\* a consumer that creates a client whenever none is ready
needsClientUntilReady(connection) == connection # "ready"

\* no client was created for the connection configuration yet
needsClient(connection) == connection = "none"

\* the consumer is called with an event for the broker 'host': the client of
\* that connection configuration is created unless there is one, ready or
\* still initializing; the call waits for the producer of that client.
\* What a call does after the producer of its broker failed is not modelled.
kafkaConsumer(k, host) ==
    /\ kafka.call[k].state = "idle"
    /\ \A j \in KafkaCalls : j < k => kafka.call[j].state # "idle"
    /\ kafka.connection[host] # "failed"
    /\ kafka' = [kafka EXCEPT
           !.call[k] = [state |-> "waiting", host |-> host,
                        found |-> kafka.connection[host], sends |-> 0],
           !.clients[host] = IF needsClient(kafka.connection[host]) THEN @ + 1 ELSE @,
           !.connection[host] = IF needsClient(@) THEN "initializing" ELSE @]
    /\ UNCHANGED corePlane
    /\ UNCHANGED pure

\* the producer of a client emits 'ready'
producerReady(host) ==
    /\ kafka.connection[host] = "initializing"
    /\ kafka' = [kafka EXCEPT !.connection[host] = "ready"]
    /\ UNCHANGED corePlane
    /\ UNCHANGED pure

\* the producer of a client emits 'error' before it is ready
producerError(host) ==
    /\ kafka.connection[host] = "initializing"
    /\ kafka' = [kafka EXCEPT !.connection[host] = "failed"]
    /\ UNCHANGED corePlane
    /\ UNCHANGED pure

\* a call that waited for the producer sends its payload
producerSend(k) ==
    /\ kafka.call[k].state = "waiting"
    /\ kafka.connection[kafka.call[k].host] = "ready"
    /\ kafka' = [kafka EXCEPT !.call[k].state = "sent", !.call[k].sends = @ + 1]
    /\ UNCHANGED corePlane
    /\ UNCHANGED pure

\* a call whose producer failed resolves without sending
connectFailed(k) ==
    /\ kafka.call[k].state = "waiting"
    /\ kafka.connection[kafka.call[k].host] = "failed"
    /\ kafka' = [kafka EXCEPT !.call[k].state = "resolved"]
    /\ UNCHANGED corePlane
    /\ UNCHANGED pure

KafkaInit == TokenInit

KafkaNext ==
    \/ \E k \in KafkaCalls, host \in KafkaHosts : kafkaConsumer(k, host)
    \/ \E host \in KafkaHosts : producerReady(host)
    \/ \E host \in KafkaHosts : producerError(host)
    \/ \E k \in KafkaCalls : producerSend(k)
    \/ \E k \in KafkaCalls : connectFailed(k)

KafkaSpec == KafkaInit /\ [][KafkaNext]_vars

(***************************************************************************)
(* Logger: secrets are masked in every message written.                    *)
(* A JSON value is a string, an object (its fields in key order) or a      *)
(* string that holds the text of a JSON value.  The text of a value is a   *)
(* sequence of tokens; a token inside a JSON string of level n has its     *)
(* quotes escaped n times.                                                 *)
(***************************************************************************)
\* the number of fields of a logged object of the model
MaxFields == 2

mask == "*********"

SecretKeys == {"passphrase", "cipherText"}

StrNode(text) == [type |-> "string", text |-> text, fields |-> <<>>]

ObjNode(fields) == [type |-> "object", text |-> "", fields |-> fields]

\* JSON.stringify(value) held as a string
JsonNode(value) == [type |-> "json", text |-> "", fields |-> << <<"", value>> >>]

Token(kind, text, level) == [kind |-> kind, text |-> text, level |-> level]

RECURSIVE stringify(_, _)
RECURSIVE stringifyFields(_, _)
\* JSON.stringify: the text of a value, as tokens
stringify(node, level) ==
    IF node.type = "string" THEN <<Token("string", node.text, level)>>
    ELSE IF node.type = "json"
    THEN <<Token("quote", "", level)>>
             \o stringify(node.fields[1][2], level + 1)
             \o <<Token("unquote", "", level)>>
    ELSE <<Token("{", "", level)>>
             \o stringifyFields(node.fields, level)
             \o <<Token("}", "", level)>>

stringifyFields(fields, level) ==
    IF fields = <<>> THEN <<>>
    ELSE <<Token("key", Head(fields)[1], level)>>
             \o stringify(Head(fields)[2], level)
             \o stringifyFields(Tail(fields), level)

\* a mask of the text that looks at unescaped keys only
maskJSONStringTopLevelOnly(tokens) ==
    [i \in 1..Len(tokens) |->
        IF /\ i > 1
           /\ tokens[i].kind = "string"
           /\ tokens[i].level = 0
           /\ tokens[i - 1].kind = "key"
           /\ tokens[i - 1].text \in SecretKeys
        THEN [tokens[i] EXCEPT !.text = mask]
        ELSE tokens[i]]

\* the mask of a message text: the string that follows a secret key, with
\* its quotes escaped or not, is replaced by the mask
maskJSONString(tokens) ==
    [i \in 1..Len(tokens) |->
        IF /\ i > 1
           /\ tokens[i].kind = "string"
           /\ tokens[i - 1].kind = "key"
           /\ tokens[i - 1].text \in SecretKeys
        THEN [tokens[i] EXCEPT !.text = mask]
        ELSE tokens[i]]

RECURSIVE maskJSONObject(_)
RECURSIVE maskJSONObjectFields(_)
\* the mask of a message object: the value of a secret key, whatever it is,
\* is replaced by the mask
maskJSONObject(node) ==
    IF node.type = "object"
    THEN ObjNode(maskJSONObjectFields(node.fields))
    ELSE node

maskJSONObjectFields(fields) ==
    IF fields = <<>> THEN <<>>
    ELSE << <<Head(fields)[1],
              IF Head(fields)[1] \in SecretKeys THEN StrNode(mask)
              ELSE maskJSONObject(Head(fields)[2])>> >>
         \o maskJSONObjectFields(Tail(fields))

\* the text the logger writes for a message: an object is masked and
\* stringified; the text is masked
written(message) ==
    IF message.kind = "object"
    THEN maskJSONString(stringify(maskJSONObject(message.data), 0))
    ELSE maskJSONString(message.text)

\* the secrets of the model
Passphrases == {"test_passphrase_1", "test_passphrase_2"}

\* the fields of the logged objects of the model
LogFields ==
    UNION {{ <<"someSecretData", ObjNode(<< <<"cipherText", StrNode(p)>> >>)>>,
             <<"someSecretData_2", ObjNode(<< <<"passphrase", StrNode(p)>> >>)>>,
             <<"someSecretData_3",
               ObjNode(<< <<"nestedData",
                   ObjNode(<< <<"passphrase",
                       ObjNode(<< <<"cipherText", StrNode(p)>> >>)>> >>)>> >>)>>,
             <<"someSecretData_4",
               ObjNode(<< <<"nestedData",
                   ObjNode(<< <<"passphrase", StrNode(p)>> >>)>> >>)>>,
             <<"jsonData",
               JsonNode(ObjNode(<< <<"someSecretData",
                   ObjNode(<< <<"cipherText", StrNode(p)>> >>)>> >>))>>,
             <<"foo", StrNode(p)>> } : p \in Passphrases}

LogObjects ==
    {ObjNode(fields) : fields \in UNION {[1..n -> LogFields] : n \in 1..MaxFields}}

\* a message is an object, or the text of an object
LogMessages ==
    {[kind |-> "object", data |-> o, text |-> <<>>] : o \in LogObjects}
    \cup {[kind |-> "string", data |-> StrNode(""), text |-> stringify(o, 0)] :
              o \in LogObjects}

LogInit ==
    /\ storage = [defined |-> FALSE, raw |-> BASE_DECLARATION]
    /\ configField = [defined |-> FALSE, config |-> BASE_CONFIG]
    /\ call = [c \in Calls |-> IdleCall]
    /\ consumers = <<>>
    /\ fwd = NoForward
    /\ eventListener = NoListeners
    /\ receiver = NewReceiver
    /\ tokenCache = EmptyTokenCache
    /\ kafka = NoKafka
    /\ \E message \in LogMessages :
          pure = [op |-> "message", message |-> message, messages |-> <<>>]

\* logger.info(message)
logInfo ==
    /\ pure.op = "message"
    /\ pure' = [pure EXCEPT !.op = "logged",
                            !.messages = <<written(pure.message)>>]
    /\ UNCHANGED <<corePlane, kafka>>

\* logger.info(messages[0]): the text written is logged again
logInfoAgain ==
    /\ pure.op = "logged"
    /\ pure' = [pure EXCEPT
           !.op = "loggedAgain",
           !.messages = Append(@, written([kind |-> "string", data |-> StrNode(""),
                                           text |-> pure.messages[1]]))]
    /\ UNCHANGED <<corePlane, kafka>>

LogNext == logInfo \/ logInfoAgain

LogSpec == LogInit /\ [][LogNext]_vars

(***************************************************************************)
(* Config resolver: the poller group of a Pull Consumer.                   *)
(***************************************************************************)
\* the number of Systems of a declaration of the model
MaxSystems == 2

SystemNames == <<"My_System", "My_System_2", "My_System_3">>

\* the systemPoller lists of the Systems of the model
SystemPollerLists ==
    { <<"Pull_Poller_1">>,
      <<"Pull_Poller_2">>,
      <<"Pull_Poller_1", "Pull_Poller_2", INLINE_POLLER, "Regular_Poller_1">>,
      <<"Regular_Poller_1">>,
      <<INLINE_POLLER>> }

\* the systemPoller lists of the Pull Consumers of the model
ConsumerPollerLists ==
    { <<"Pull_Poller_1">>,
      <<"Pull_Poller_3">>,
      <<"Pull_Poller_2", "Pull_Poller_1">>,
      <<"Pull_Poller_1", "Pull_Poller_2", "Pull_Poller_3">> }

Poller(name) == Obj(name, SYSTEM_POLLER_CLASS, "unset", "none", <<>>, "none")

\* the objects of one namespace: the pollers, the Systems, the Pull Consumer
ResolverObjects(systemLists, consumerList, enable) ==
    << Poller("Pull_Poller_1"), Poller("Pull_Poller_2"), Poller("Pull_Poller_3"),
       Poller("Pull_Poller_4"), Poller("Regular_Poller_1") >>
    \o [i \in 1..Len(systemLists) |->
            Obj(SystemNames[i], SYSTEM_CLASS, "unset", "none", systemLists[i], "none")]
    \o << Obj("My_Pull_Consumer", PULL_CONSUMER_CLASS, enable, "none",
               consumerList, "none") >>

ResolverInit ==
    /\ storage = [defined |-> FALSE, raw |-> BASE_DECLARATION]
    /\ configField = [defined |-> FALSE, config |-> BASE_CONFIG]
    /\ call = [c \in Calls |-> IdleCall]
    /\ consumers = <<>>
    /\ fwd = NoForward
    /\ eventListener = NoListeners
    /\ receiver = NewReceiver
    /\ tokenCache = EmptyTokenCache
    /\ kafka = NoKafka
    /\ \E n \in 0..MaxSystems :
       \E systemLists \in [1..n -> SystemPollerLists],
          consumerList \in ConsumerPollerLists,
          namespace \in {DEFAULT_NAMESPACE, "My_Namespace"} :
            pure = [op |-> "declaration", namespace |-> namespace,
                    objects |-> ResolverObjects(systemLists, consumerList, "unset"),
                    components |-> <<>>]

\* the Pull Consumers of the namespace are normalized: the consumer and its
\* poller group
normalizePullConsumers ==
    /\ pure.op = "declaration"
    /\ pure' = [pure EXCEPT
           !.op = "normalized",
           !.components = ClassComponents(pure.namespace, pure.objects,
                                          PULL_CONSUMER_CLASS)]
    /\ UNCHANGED <<corePlane, kafka>>

\* the normalized configuration is handed on
resolverDone ==
    /\ pure.op = "normalized"
    /\ pure' = [pure EXCEPT !.op = "done"]
    /\ UNCHANGED <<corePlane, kafka>>

ResolverNext == normalizePullConsumers \/ resolverDone

ResolverSpec == ResolverInit /\ [][ResolverNext]_vars

(***************************************************************************)
(* normalize.js: _convertArrayToMap.  A string is a sequence of            *)
(* characters.                                                             *)
(***************************************************************************)
\* the number of elements of the array
MaxElements == 2

\* the value of a property the object does not have
Undefined == <<"undefined">>

\* a value in a template literal or as a property name
toString(v) == IF v = Undefined THEN <<"u", "n", "d", "e", "f", "i", "n", "e", "d">> ELSE v

\* String.prototype.substring(1)
substringFrom1(str) == IF str = <<>> THEN <<>> ELSE Tail(str)

\* the key name without a leading separator of any length
keyNameOfJoined(element, key, keyNamesSeparator) ==
    LET parts == MapSeq(key.names, LAMBDA k : keyNamesSeparator \o toString(element[k]))
    IN IF parts = <<>> THEN <<>>
       ELSE toString(element[key.names[1]]) \o Concat(Tail(parts))

\* lines 86-98: the key name of one element
keyNameOf(element, key, options) ==
    LET keyNamesSeparator ==
            IF options.keyNamesSeparator # Undefined /\ options.keyNamesSeparator # <<>>
            THEN options.keyNamesSeparator ELSE <<"_">>
        prefix == IF options.keyNamePrefix # Undefined /\ options.keyNamePrefix # <<>>
                  THEN options.keyNamePrefix ELSE <<>>
    IN IF key.compound
       THEN prefix \o substringFrom1(
                Concat(MapSeq(key.names,
                              LAMBDA k : keyNamesSeparator \o toString(element[k]))))
       ELSE prefix \o toString(element[key.names[1]])

\* an element that lacks the key is left out when skipWhenKeyMissing is set
elementStoredUnlessSkipped(element, key, options) ==
    ~ (options.skipWhenKeyMissing /\ \E k \in Range(key.names) : element[k] = Undefined)

\* lines 85-100: every element of the array is stored
elementStored(element, key, options) == TRUE

RECURSIVE storeAll(_, _, _, _)
\* data.forEach: ret[keyName] = i
storeAll(ret, data, key, options) ==
    IF data = <<>> THEN ret
    ELSE LET i == Head(data)
         IN storeAll(IF elementStored(i, key, options)
                     THEN (keyNameOf(i, key, options) :> i) @@ ret
                     ELSE ret,
                     Tail(data), key, options)

NotArray == [isArray |-> FALSE, items |-> <<>>]

NoMap == [k \in {} |-> Undefined]

_convertArrayToMap(data, key, options) ==
    IF ~ data.isArray
    THEN [threw |-> TRUE, ret |-> NoMap]
    ELSE [threw |-> FALSE, ret |-> storeAll(NoMap, data.items, key, options)]

ElementValues == {Undefined, <<"a">>, <<"b">>}

Elements == [name : ElementValues, partition : ElementValues]

RECURSIVE ArraysOf(_, _)
ArraysOf(set, n) ==
    IF n = 0 THEN {<<>>}
    ELSE ArraysOf(set, n - 1)
         \cup {Append(a, e) : a \in {x \in ArraysOf(set, n - 1) : Len(x) = n - 1}, e \in set}

ConvertData == {NotArray} \cup {[isArray |-> TRUE, items |-> a] : a \in ArraysOf(Elements, MaxElements)}

ConvertKeys == { [compound |-> FALSE, names |-> <<"name">>],
                 [compound |-> TRUE, names |-> <<"name", "partition">>] }

ConvertOptions ==
    [keyNamePrefix : {Undefined, <<"n", "/">>},
     skipWhenKeyMissing : BOOLEAN,
     keyNamesSeparator : {Undefined, <<"-">>, <<":", ":">>}]

ConvertInit ==
    /\ storage = [defined |-> FALSE, raw |-> BASE_DECLARATION]
    /\ configField = [defined |-> FALSE, config |-> BASE_CONFIG]
    /\ call = [c \in Calls |-> IdleCall]
    /\ consumers = <<>>
    /\ fwd = NoForward
    /\ eventListener = NoListeners
    /\ receiver = NewReceiver
    /\ tokenCache = EmptyTokenCache
    /\ kafka = NoKafka
    /\ \E data \in ConvertData, key \in ConvertKeys, options \in ConvertOptions :
          pure = [op |-> "arguments", data |-> data, key |-> key, options |-> options,
                  threw |-> FALSE, ret |-> NoMap]

convertArrayToMap ==
    /\ pure.op = "arguments"
    /\ LET r == _convertArrayToMap(pure.data, pure.key, pure.options)
       IN pure' = [pure EXCEPT !.op = "converted", !.threw = r.threw, !.ret = r.ret]
    /\ UNCHANGED <<corePlane, kafka>>

ConvertNext == convertArrayToMap

ConvertSpec == ConvertInit /\ [][ConvertNext]_vars

(***************************************************************************)
(* normalize.js: _renameKeys.  A key is a sequence of characters; a        *)
(* pattern map is the sequence of its entries in the order of              *)
(* Object.keys; a regular expression is a literal.                         *)
(***************************************************************************)
\* the number of entries of a pattern map
MaxPatterns == 2

\* the number of maps of an array of pattern maps
MaxMaps == 2

\* String.prototype.includes
includes(str, sub) ==
    \E i \in 1..(Len(str) - Len(sub) + 1) : SubSeq(str, i, i + Len(sub) - 1) = sub

RECURSIVE replaceAll(_, _, _)
\* str.replace(new RegExp(sub, 'g'), rep)
replaceAll(str, sub, rep) ==
    IF str = <<>> \/ sub = <<>> THEN str
    ELSE IF Len(str) >= Len(sub) /\ SubSeq(str, 1, Len(sub)) = sub
         THEN rep \o replaceAll(SubSeq(str, Len(sub) + 1, Len(str)), sub, rep)
         ELSE <<Head(str)>> \o replaceAll(Tail(str), sub, rep)

\* lines 115-125, without excludePattern: the matched text, <<>> for none
_checkForMatch(data, pattern, group) ==
    IF includes(data, pattern) /\ group = 0 THEN pattern ELSE <<>>

\* lines 149-150
keyMatch(key, childPattern, options) ==
    LET exactMatch == \/ (options.exactMatch = "true" /\ childPattern.exactMatch # "false")
                      \/ childPattern.exactMatch = "true"
    IN IF exactMatch THEN key = childPattern.pK ELSE includes(key, childPattern.pK)

\* lines 152-167: the key a matching pattern makes of the key so far
applyPattern(retKey, childPattern) ==
    IF childPattern.constant # Undefined
    THEN childPattern.constant
    ELSE IF childPattern.replaceCharacter # Undefined /\ childPattern.replaceCharacter # <<>>
    THEN replaceAll(retKey, childPattern.pK, childPattern.replaceCharacter)
    ELSE LET patternMatch == _checkForMatch(retKey, childPattern.pattern, childPattern.group)
         IN IF patternMatch # <<>> THEN patternMatch ELSE retKey

RECURSIVE renameFrom(_, _, _, _)
\* lines 143-169: Object.keys(childPatterns).forEach
renameFrom(key, retKey, childPatterns, options) ==
    IF childPatterns = <<>> THEN retKey
    ELSE renameFrom(key,
                    IF keyMatch(key, Head(childPatterns), options)
                    THEN applyPattern(retKey, Head(childPatterns))
                    ELSE retKey,
                    Tail(childPatterns), options)

\* the first pattern of the map that matches decides alone
renameFirstMatch(key, childPatterns, options) ==
    LET matching == SelectSeq(childPatterns, LAMBDA cp : keyMatch(key, cp, options))
    IN IF matching = <<>> THEN key ELSE applyPattern(key, Head(matching))

\* lines 141-170
rename(key, childPatterns, options) == renameFrom(key, key, childPatterns, options)

RECURSIVE renameEach(_, _, _)
\* lines 179-182: patterns.forEach((i) => renamedKey = rename(renamedKey, i))
renameEach(renamedKey, maps, options) ==
    IF maps = <<>> THEN renamedKey
    ELSE renameEach(rename(renamedKey, Head(maps), options), Tail(maps), options)

\* lines 175-185
renamedKeyOf(k, patterns, options) ==
    IF patterns.isArray THEN renameEach(k, patterns.maps, options)
    ELSE rename(k, patterns.maps[1], options)

\* ret[key] = value: a key the object has keeps its place
setField(ret, key, value) ==
    IF \E i \in 1..Len(ret) : ret[i][1] = key
    THEN [i \in 1..Len(ret) |-> IF ret[i][1] = key THEN <<key, value>> ELSE ret[i]]
    ELSE Append(ret, <<key, value>>)

RECURSIVE _renameKeys(_, _, _)
RECURSIVE renameFields(_, _, _, _)
\* lines 174-187: Object.keys(data).forEach
renameFields(fields, ret, patterns, options) ==
    IF fields = <<>> THEN ret
    ELSE renameFields(Tail(fields),
                      setField(ret, renamedKeyOf(Head(fields)[1], patterns, options),
                               _renameKeys(Head(fields)[2], patterns, options)),
                      patterns, options)

\* lines 137-191
_renameKeys(data, patterns, options) ==
    IF data.type = "object"
    THEN [data EXCEPT !.fields = renameFields(data.fields, <<>>, patterns, options)]
    ELSE data

Leaf == [type |-> "value", fields |-> <<>>]

ObjectOf(fields) == [type |-> "object", fields |-> fields]

RenameData ==
    { [type |-> "array", fields |-> <<>>],
      ObjectOf(<< <<<<"a", ":", "b">>, Leaf>> >>),
      ObjectOf(<< <<<<"a", "b">>, Leaf>>, <<<<"c">>, Leaf>> >>),
      ObjectOf(<< <<<<"a", "b">>, ObjectOf(<< <<<<"a", ":", "b">>, Leaf>> >>)>> >>),
      ObjectOf(<< <<<<"a", ":", "b">>, Leaf>>, <<<<"a", "b">>, Leaf>> >>) }

Pattern(pK, exactMatch, constant, replaceCharacter, pattern) ==
    [pK |-> pK, exactMatch |-> exactMatch, constant |-> constant,
     replaceCharacter |-> replaceCharacter, pattern |-> pattern, group |-> 0]

ChildPatterns ==
    { Pattern(<<"a">>, "unset", <<"X">>, Undefined, Undefined),
      Pattern(<<"b">>, "unset", <<"Y">>, Undefined, Undefined),
      Pattern(<<":">>, "unset", Undefined, <<"_">>, Undefined),
      Pattern(<<"a">>, "false", Undefined, Undefined, <<"b">>),
      Pattern(<<"a", "b">>, "true", <<"Z">>, Undefined, Undefined),
      Pattern(<<"X">>, "unset", <<"V">>, Undefined, Undefined) }

\* the pattern maps: the keys of an object are distinct
PatternMaps ==
    {m \in ArraysOf(ChildPatterns, MaxPatterns) :
        /\ m # <<>>
        /\ \A i, j \in 1..Len(m) : i # j => m[i].pK # m[j].pK}

RenamePatterns ==
    {[isArray |-> FALSE, maps |-> <<m>>] : m \in PatternMaps}
    \cup {[isArray |-> TRUE, maps |-> a] : a \in ArraysOf(PatternMaps, MaxMaps) \ {<<>>}}

RenameInit ==
    /\ storage = [defined |-> FALSE, raw |-> BASE_DECLARATION]
    /\ configField = [defined |-> FALSE, config |-> BASE_CONFIG]
    /\ call = [c \in Calls |-> IdleCall]
    /\ consumers = <<>>
    /\ fwd = NoForward
    /\ eventListener = NoListeners
    /\ receiver = NewReceiver
    /\ tokenCache = EmptyTokenCache
    /\ kafka = NoKafka
    /\ \E data \in RenameData, patterns \in RenamePatterns,
          exactMatch \in {"unset", "true"} :
          pure = [op |-> "arguments", data |-> data, patterns |-> patterns,
                  options |-> [exactMatch |-> exactMatch], ret |-> Leaf]

renameKeys ==
    /\ pure.op = "arguments"
    /\ pure' = [pure EXCEPT !.op = "renamed",
                            !.ret = _renameKeys(pure.data, pure.patterns, pure.options)]
    /\ UNCHANGED <<corePlane, kafka>>

RenameNext == renameKeys

RenameSpec == RenameInit /\ [][RenameNext]_vars

(***************************************************************************)
(* normalize.js: normalizers and the data object they are given.  The      *)
(* value of the object is kept in pure.data; a normalizer that writes to   *)
(* its argument changes it.                                                *)
(***************************************************************************)
\* the number of sub-objects of the data of getPercentFromKeys
MaxSubObjects == 2

\* lines 236-243: the key is deleted
deleteKey(k, options) ==
    IF options.include.given
    THEN ~ \E n \in 1..Len(options.include.keys) : includes(k, options.include.keys[n])
    ELSE IF options.exclude.given
    THEN \E n \in 1..Len(options.exclude.keys) : options.exclude.keys[n] = k
    ELSE FALSE

RECURSIVE filteredData(_, _)
\* lines 229-251: what is left of data
filteredData(data, options) ==
    IF data.type # "object" THEN data
    ELSE [data EXCEPT !.fields =
            MapSeq(SelectSeq(data.fields, LAMBDA f : ~ deleteKey(f[1], options)),
                   LAMBDA f : <<f[1], filteredData(f[2], options)>>)]

\* the keys are deleted from a copy of data
_filterDataByKeysOnCopy(data, options) ==
    IF options.include.given /\ options.exclude.given
    THEN [threw |-> TRUE, result |-> Leaf, data |-> data]
    ELSE [threw |-> FALSE, result |-> filteredData(data, options), data |-> data]

\* lines 221-252: delete data[k], data[k] = ..., return data
_filterDataByKeys(data, options) ==
    IF options.include.given /\ options.exclude.given
    THEN [threw |-> TRUE, result |-> Leaf, data |-> data]
    ELSE [threw |-> FALSE, result |-> filteredData(data, options),
          data |-> filteredData(data, options)]

\* values of getPercentFromKeys: numbers, NaN, undefined, objects
Num(n) == [kind |-> "number", n |-> n, props |-> <<>>]

NaN == [kind |-> "NaN", n |-> 0, props |-> <<>>]

UndefinedValue == [kind |-> "undefined", n |-> 0, props |-> <<>>]

Props(props) == [kind |-> "object", n |-> 0, props |-> props]

\* obj[key]
getProp(obj, key) ==
    IF obj.kind = "object" /\ \E i \in 1..Len(obj.props) : obj.props[i][1] = key
    THEN obj.props[CHOOSE i \in 1..Len(obj.props) : obj.props[i][1] = key][2]
    ELSE UndefinedValue

\* obj[key] = value
setProp(obj, key, value) == [obj EXCEPT !.props = setField(obj.props, key, value)]

\* acc + val
plus(acc, val) ==
    IF acc.kind = "number" /\ val.kind = "number" THEN Num(acc.n + val.n) ELSE NaN

RECURSIVE reduceSum(_)
\* .reduce((acc, val) => acc + val) of a non-empty array
reduceSum(values) ==
    IF Len(values) = 1 THEN values[1]
    ELSE plus(reduceSum(SubSeq(values, 1, Len(values) - 1)), values[Len(values)])

\* line 393-395
accumulateSubKeys(data, arg, dataKeys) ==
    reduceSum(MapSeq(dataKeys, LAMBDA key : getProp(getProp(data, key), arg)))

\* lines 405-407: Math.round((partial / total) * 100), inverse
percent(partial, total, inverse) ==
    IF partial.kind = "number" /\ total.kind = "number" /\ total.n > 0
    THEN LET ret == (200 * partial.n + total.n) \div (2 * total.n)
         IN Num(IF inverse THEN 100 - ret ELSE ret)
    ELSE NaN

\* lines 390-408
getPercentFromKeys(data, args) ==
    LET dataKeys == MapSeq(data.props, LAMBDA p : p[1])
        accumulated ==
            IF args.nestedObjects /\ data.kind = "object"
            THEN setProp(setProp(data, args.partialKey,
                                 accumulateSubKeys(data, args.partialKey, dataKeys)),
                         args.totalKey,
                         accumulateSubKeys(
                             setProp(data, args.partialKey,
                                     accumulateSubKeys(data, args.partialKey, dataKeys)),
                             args.totalKey, dataKeys))
            ELSE data
    IN [threw |-> FALSE,
        result |-> percent(getProp(accumulated, args.partialKey),
                           getProp(accumulated, args.totalKey), args.inverse),
        data |-> accumulated]

\* a pool object of a wide IP, or the path string made of one
PoolObject(partition, subPath, name) ==
    [isString |-> FALSE, partition |-> partition, subPath |-> subPath, name |-> name,
     text |-> <<>>]

PathString(text) ==
    [isString |-> TRUE, partition |-> "", subPath |-> "", name |-> "", text |-> text]

\* lines 581-584; a property of a string is undefined
buildFullPath(pool) ==
    IF pool.isString
    THEN PathString(<<"/", "undefined", "/", "undefined">>)
    ELSE PathString(<<"/", pool.partition>>
                    \o (IF pool.subPath # "" THEN <<"/", pool.subPath>> ELSE <<>>)
                    \o <<"/", pool.name>>)

\* lines 587-601: one item of the data
restructuredItem(item) ==
    LET pools == IF item.hasPools THEN MapSeq(item.pools, buildFullPath) ELSE <<>>
    IN [hasPools |-> item.hasPools \/ item.hasPoolsCname,
        pools |-> IF item.hasPoolsCname
                  THEN pools \o MapSeq(item.poolsCname, buildFullPath)
                  ELSE pools,
        hasPoolsCname |-> FALSE,
        poolsCname |-> <<>>,
        lastResortPool |->
            IF item.lastResortPool.defined /\ item.lastResortPool.words # <<>>
            THEN IF Len(item.lastResortPool.words) >= 2
                 THEN [defined |-> TRUE, words |-> <<item.lastResortPool.words[2]>>]
                 ELSE [defined |-> FALSE, words |-> <<>>]
            ELSE item.lastResortPool]

\* lines 578-605: the items are rewritten in data, data is returned
restructureGslbWideIp(data) ==
    LET restructured == MapSeq(data, LAMBDA f : <<f[1], restructuredItem(f[2])>>)
    IN [threw |-> FALSE, result |-> restructured, data |-> restructured]

\* a normalizer called with the data object and its options
Normalizer(fn, data, opts) ==
    CASE fn = "_filterDataByKeys" -> _filterDataByKeys(data, opts)
      [] fn = "getPercentFromKeys" -> getPercentFromKeys(data, opts)
      [] fn = "restructureGslbWideIp" -> restructureGslbWideIp(data)

\* options.include, options.exclude: not given, or an array of keys
NoKeys == [given |-> FALSE, keys |-> <<>>]

Keys(keys) == [given |-> TRUE, keys |-> keys]

FilterArguments ==
    {<<"_filterDataByKeys", d, o>> :
        d \in RenameData \cup {Leaf},
        o \in [include : {NoKeys, Keys(<< <<"a">> >>), Keys(<< <<"c">>, <<":">> >>)},
               exclude : {NoKeys, Keys(<< <<"a", "b">> >>)}]}

SubObjectKeys == <<"memory0", "memory1", "memory2", "memory3">>

SubObjects ==
    {Props(<< <<"free", Num(f)>>, <<"total", Num(t)>> >>) : f \in {1, 2}, t \in {2, 3}}

PercentData ==
    SubObjects
    \cup {Props([i \in 1..Len(a) |-> <<SubObjectKeys[i], a[i]>>]) :
             a \in ArraysOf(SubObjects, MaxSubObjects) \ {<<>>}}

PercentArguments ==
    {<<"getPercentFromKeys", d, o>> :
        d \in PercentData,
        o \in [partialKey : {"free"}, totalKey : {"total"}, inverse : BOOLEAN,
               nestedObjects : BOOLEAN]}

WideIpItems ==
    [hasPools : {TRUE}, pools : {<<>>, <<PoolObject("Common", "", "p1")>>,
                                 <<PoolObject("Common", "app", "p1")>>},
     hasPoolsCname : {FALSE}, poolsCname : {<<>>},
     lastResortPool : {[defined |-> FALSE, words |-> <<>>],
                       [defined |-> TRUE, words |-> <<>>],
                       [defined |-> TRUE, words |-> <<"a", "/Common/p1">>]}]
    \cup
    [hasPools : {FALSE}, pools : {<<>>},
     hasPoolsCname : BOOLEAN, poolsCname : {<<>>, <<PoolObject("Common", "", "c1")>>},
     lastResortPool : {[defined |-> FALSE, words |-> <<>>]}]

GslbArguments ==
    {<<"restructureGslbWideIp", << <<"wideip1", i>> >>, NoKeys>> : i \in WideIpItems}
    \cup {<<"restructureGslbWideIp", <<>>, NoKeys>>}

NormalizerInit ==
    /\ storage = [defined |-> FALSE, raw |-> BASE_DECLARATION]
    /\ configField = [defined |-> FALSE, config |-> BASE_CONFIG]
    /\ call = [c \in Calls |-> IdleCall]
    /\ consumers = <<>>
    /\ fwd = NoForward
    /\ eventListener = NoListeners
    /\ receiver = NewReceiver
    /\ tokenCache = EmptyTokenCache
    /\ kafka = NoKafka
    /\ \E arguments \in {FilterArguments, PercentArguments, GslbArguments} :
       \E a \in arguments :
          pure = [op |-> "arguments", fn |-> a[1], data |-> a[2], opts |-> a[3],
                  before |-> a[2], second |-> "none",
                  first |-> [threw |-> FALSE], again |-> [threw |-> FALSE]]

\* the normalizer is called with the data object
normalizerCalled ==
    /\ pure.op = "arguments"
    /\ LET r == Normalizer(pure.fn, pure.data, pure.opts)
       IN pure' = [pure EXCEPT !.op = "called", !.data = r.data,
                               !.first = [threw |-> r.threw, result |-> r.result]]
    /\ UNCHANGED <<corePlane, kafka>>

\* it is called again with the same object and options
calledAgainWithSameObject ==
    /\ pure.op = "called"
    /\ LET r == Normalizer(pure.fn, pure.data, pure.opts)
       IN pure' = [pure EXCEPT !.op = "calledAgain", !.second = "same object",
                               !.data = r.data,
                               !.again = [threw |-> r.threw, result |-> r.result,
                                          argument |-> pure.data]]
    /\ UNCHANGED <<corePlane, kafka>>

\* it is called again with another object equal to what the first call was
\* given
calledAgainWithEqualData ==
    /\ pure.op = "called"
    /\ LET r == Normalizer(pure.fn, pure.before, pure.opts)
       IN pure' = [pure EXCEPT !.op = "calledAgain", !.second = "equal data",
                               !.again = [threw |-> r.threw, result |-> r.result,
                                          argument |-> pure.before]]
    /\ UNCHANGED <<corePlane, kafka>>

NormalizerNext ==
    normalizerCalled \/ calledAgainWithSameObject \/ calledAgainWithEqualData

NormalizerSpec == NormalizerInit /\ [][NormalizerNext]_vars

(***************************************************************************)
(* normalize.js: getLastAsmChange.  A date text has a form and names an    *)
(* instant; Date.parse gives the instant in UTC, toISOString always the    *)
(* UTC form with milliseconds.                                             *)
(***************************************************************************)
\* the number of ASM policies
MaxPolicies == 3

\* versionDatetime: a UTC text, a text with a time zone offset, a text that
\* is no date, or no versionDatetime at all
DateText(form, t, offset) == [form |-> form, t |-> t, offset |-> offset]

\* Date.parse
DateParse(text) ==
    CASE text.form = "utc" -> Num(text.t)
      [] text.form = "offset" -> Num(text.t - text.offset)
      [] OTHER -> NaN

\* new Date(ms).toISOString()
toISOString(ms) == DateText("utc.ms", ms, 0)

\* any parseable versionDatetime replaces the latest one
isLaterOrLast(versionInUnixTime, latestModifiedDate) ==
    versionInUnixTime.kind # "NaN"

\* line 881
isLater(versionInUnixTime, latestModifiedDate) ==
    /\ versionInUnixTime.kind # "NaN"
    /\ versionInUnixTime.n > latestModifiedDate

RECURSIVE latestOf(_, _)
\* lines 877-884: asmPolicies.forEach
latestOf(asmPolicies, latestModifiedDate) ==
    IF asmPolicies = <<>> THEN latestModifiedDate
    ELSE latestOf(Tail(asmPolicies),
                  IF isLater(DateParse(Head(asmPolicies).versionDatetime), latestModifiedDate)
                  THEN DateParse(Head(asmPolicies).versionDatetime).n
                  ELSE latestModifiedDate)

\* lines 872-886; the empty string is the date text of form ""
getLastAsmChange(asmPolicies) ==
    IF Len(asmPolicies) = 0 THEN DateText("", 0, 0)
    ELSE toISOString(latestOf(asmPolicies, 0))

VersionDatetimes ==
    {DateText("utc", t, 0) : t \in 2..4}
    \cup {DateText("offset", t, 1) : t \in 2..4}
    \cup {DateText("invalid", 0, 0), DateText("undefined", 0, 0)}

AsmPolicies == [versionDatetime : VersionDatetimes]

AsmInit ==
    /\ storage = [defined |-> FALSE, raw |-> BASE_DECLARATION]
    /\ configField = [defined |-> FALSE, config |-> BASE_CONFIG]
    /\ call = [c \in Calls |-> IdleCall]
    /\ consumers = <<>>
    /\ fwd = NoForward
    /\ eventListener = NoListeners
    /\ receiver = NewReceiver
    /\ tokenCache = EmptyTokenCache
    /\ kafka = NoKafka
    /\ \E data \in ArraysOf(AsmPolicies, MaxPolicies) :
          pure = [op |-> "arguments", data |-> data, ret |-> DateText("", 0, 0)]

lastAsmChange ==
    /\ pure.op = "arguments"
    /\ pure' = [pure EXCEPT !.op = "returned", !.ret = getLastAsmChange(pure.data)]
    /\ UNCHANGED <<corePlane, kafka>>

AsmNext == lastAsmChange

AsmSpec == AsmInit /\ [][AsmNext]_vars

(***************************************************************************)
(* normalize.js: getValue and restructureHostCpuInfo.                      *)
(***************************************************************************)
\* the length of a path of getValue
MaxPath == 3

NullValue == [kind |-> "null", n |-> 0, props |-> <<>>]

\* the string 'missing data'
MissingData == [kind |-> "string", n |-> 0, props |-> <<"missing data">>]

\* a property of null reads as undefined
propertyReadThrowsNever(data) == FALSE

\* reading a property of the value throws a TypeError
propertyReadThrows(data) == data.kind \in {"null", "undefined"}

RECURSIVE everyKey(_, _)
\* lines 713-720: args.path.every
everyKey(data, path) ==
    IF path = <<>> THEN [threw |-> FALSE, ret |-> data]
    ELSE IF propertyReadThrows(data) THEN [threw |-> TRUE, ret |-> UndefinedValue]
    ELSE IF getProp(data, Head(path)).kind = "undefined"
         THEN [threw |-> FALSE, ret |-> MissingData]
         ELSE everyKey(getProp(data, Head(path)), Tail(path))

\* lines 710-723
getValue(data, path) ==
    IF data.kind \notin {"null", "undefined"} /\ path.given
    THEN everyKey(data, path.keys)
    ELSE [threw |-> FALSE, ret |-> data]

RECURSIVE assignAll(_, _)
\* Object.assign(matchedData, source)
assignAll(matchedData, props) ==
    IF props = <<>> THEN matchedData
    ELSE assignAll(setField(matchedData, Head(props)[1], Head(props)[2]), Tail(props))

RECURSIVE matchedOf(_, _, _)
\* lines 280-286: Object.keys(inputData).forEach
matchedOf(matchedData, props, keyExp) ==
    IF props = <<>> THEN matchedData
    ELSE matchedOf(IF includes(Head(props)[1], keyExp)
                   THEN assignAll(matchedData, Head(props)[2].props)
                   ELSE matchedData,
                   Tail(props), keyExp)

RECURSIVE findMatches(_, _)
\* lines 273-288
findMatches(inputData, keys) ==
    IF keys = <<>> THEN inputData
    ELSE findMatches(Props(matchedOf(<<>>, inputData.props, Head(keys))), Tail(keys))

\* lines 263-291
restructureHostCpuInfo(data, keyPattern) ==
    IF ~ keyPattern.given THEN [threw |-> TRUE, ret |-> UndefinedValue]
    ELSE IF data.kind # "object" THEN [threw |-> FALSE, ret |-> data]
    ELSE LET result == findMatches(data, keyPattern.keys)
         IN [threw |-> FALSE,
             ret |-> IF Len(result.props) = 0 THEN MissingData ELSE result]

ValueData ==
    {NullValue, Props(<<>>)}
    \cup {Props(<< <<"a", v>> >>) :
             v \in {Num(1), NullValue, Props(<< <<"b", Num(2)>> >>),
                    Props(<< <<"b", NullValue>> >>)}}

ValuePaths ==
    {NoKeys} \cup {Keys(p) : p \in ArraysOf({"a", "b", "c"}, MaxPath)}

Cpu(idle) == Props(<< <<<<"i", "d", "l", "e">>, Num(idle)>> >>)

HostData ==
    { Num(1),
      Props(<<>>),
      Props(<< <<<<"h", "0">>, Props(<< <<<<"c", "0">>, Cpu(1)>>,
                                       <<<<"c", "1">>, Cpu(2)>> >>)>> >>),
      Props(<< <<<<"h", "0">>, Props(<< <<<<"c", "0">>, Cpu(1)>> >>)>>,
               <<<<"h", "1">>, Props(<< <<<<"c", "1">>, Cpu(3)>> >>)>> >>) }

HostKeyPatterns ==
    {NoKeys}
    \cup {Keys(p) : p \in ArraysOf({<<"h">>, <<"c">>, <<"0">>, <<"x">>}, 2) \ {<<>>}}

ValueInit ==
    /\ storage = [defined |-> FALSE, raw |-> BASE_DECLARATION]
    /\ configField = [defined |-> FALSE, config |-> BASE_CONFIG]
    /\ call = [c \in Calls |-> IdleCall]
    /\ consumers = <<>>
    /\ fwd = NoForward
    /\ eventListener = NoListeners
    /\ receiver = NewReceiver
    /\ tokenCache = EmptyTokenCache
    /\ kafka = NoKafka
    /\ \/ \E data \in ValueData, path \in ValuePaths :
             pure = [op |-> "arguments", fn |-> "getValue", data |-> data, path |-> path,
                     threw |-> FALSE, ret |-> UndefinedValue]
       \/ \E data \in HostData, keyPattern \in HostKeyPatterns :
             pure = [op |-> "arguments", fn |-> "restructureHostCpuInfo", data |-> data,
                     path |-> keyPattern, threw |-> FALSE, ret |-> UndefinedValue]

getValueCalled ==
    /\ pure.op = "arguments"
    /\ pure.fn = "getValue"
    /\ LET r == getValue(pure.data, pure.path)
       IN pure' = [pure EXCEPT !.op = "returned", !.threw = r.threw, !.ret = r.ret]
    /\ UNCHANGED <<corePlane, kafka>>

restructureHostCpuInfoCalled ==
    /\ pure.op = "arguments"
    /\ pure.fn = "restructureHostCpuInfo"
    /\ LET r == restructureHostCpuInfo(pure.data, pure.path)
       IN pure' = [pure EXCEPT !.op = "returned", !.threw = r.threw, !.ret = r.ret]
    /\ UNCHANGED <<corePlane, kafka>>

ValueNext == getValueCalled \/ restructureHostCpuInfoCalled

ValueSpec == ValueInit /\ [][ValueNext]_vars













(***************************************************************************)
(* Properties.                                                             *)
(***************************************************************************)
\* the names of the events of one processDeclaration call, in order
TxEvents(c, attempt) ==
    MapSeq(SelectSeq(call[c].events, LAMBDA e : e.by = <<c, attempt>>),
           LAMBDA e : e.name)

CurEvents(c) == TxEvents(c, call[c].attempt)

Alone(c) == \A o \in Calls \ {c} : call[o].pc = "idle"

IsEnabled(configuration, id) ==
    \E m \in Range(configuration.components) : m.id = id /\ m.enable

OtherNamespaces(components, namespace) ==
    SelectSeq(components, LAMBDA m : m.namespace # namespace)

Unmarked(components) ==
    MapSeq(components, LAMBDA m : [m EXCEPT !.skipUpdate = FALSE])

\* C1: declaration applies are serialized: no two calls are at the same time
\* between their validation and the end of their apply (config replaced,
\* declaration written, 'change' emitted).
C1_AppliesSerialized ==
    \A c1 \in Calls, c2 \in Calls :
        c1 # c2 => ~(/\ call[c1].pc \in {"setConfig", "saving"}
                     /\ call[c2].pc \in {"setConfig", "saving"})

\* C2: a call whose declaration fails validation or expansion rejects with a
\* ValidationError, emits 'received' then 'validationFailed' and nothing else,
\* writes nothing to the storage and does not replace the current config.
C2_ValidationFailureChangesNothing ==
    \A c \in Calls :
        /\ \A a \in 1..2 :
              "validationFailed" \in Range(TxEvents(c, a))
                  => TxEvents(c, a) = <<"received", "validationFailed">>
        /\ "validationFailed" \in Range(CurEvents(c)) =>
              /\ call[c].pc = "rejected"
              /\ call[c].error = "ValidationError"
              /\ ~call[c].setConfig
              /\ ~call[c].wrote
              /\ ~call[c].change.emitted
              /\ Alone(c) => /\ currentConfig = call[c].before.config
                             /\ storage = call[c].before.storage
        /\ (call[c].attempt >= 1 /\ call[c].pc \in {"normalize", "setConfig"})
              => /\ SchemaValid(call[c].declaration)
                 /\ ExpandValid(call[c].declaration)

C2_Witness ==
    \E c \in Calls, o \in Calls :
        /\ call[c].pc = "rejected"
        /\ call[c].error = "ValidationError"
        /\ call[c].api = "processDeclaration"
        /\ SchemaValid(call[c].declaration)
        /\ ~ExpandValid(call[c].declaration)
        /\ call[o].pc = "resolved"
        /\ call[o].wrote
        /\ currentConfig = call[o].conf
        /\ currentConfig.components # <<>>

\* C3: within one call 'received' comes first, then exactly one of
\* 'validationSucceed' and 'validationFailed', and 'change' comes only after
\* 'validationSucceed' and, when save is true, after a successful write.
C3_EventOrder ==
    \A c \in Calls :
        /\ \A a \in 1..2 :
              TxEvents(c, a) \in
                  { <<>>, <<"received">>,
                    <<"received", "validationFailed">>,
                    <<"received", "validationSucceed">>,
                    <<"received", "validationSucceed", "change">> }
        /\ call[c].pc \in {"validate", "expand"} => CurEvents(c) = <<"received">>
        /\ call[c].pc \in {"normalize", "setConfig", "saving", "notify", "decrypt"}
              => CurEvents(c) = <<"received", "validationSucceed">>
        /\ "change" \in Range(CurEvents(c))
              => /\ call[c].setConfig
                 /\ call[c].save => call[c].wrote

C3_Witness ==
    \E c \in Calls :
        /\ call[c].pc = "resolved"
        /\ call[c].save
        /\ call[c].wrote
        /\ CurEvents(c) = <<"received", "validationSucceed", "change">>

\* C4: whichever consumers throw while their actions are processed or inside
\* the consumer function, forward calls every loaded consumer whose id is in
\* destinationIds exactly once, calls no other consumer, and does not reject.
C4_ForwardIsolated ==
    /\ fwd.state \in {"idle", "dispatched", "resolved"}
    /\ fwd.state # "idle" =>
          \A id \in Range(consumers) :
              fwd.invoked[id] = IF id \in fwd.destinationIds THEN 1 ELSE 0

C4_Witness ==
    /\ fwd.state = "resolved"
    /\ fwd.threwInActions # {}
    /\ fwd.threwInConsumer # {}
    /\ fwd.threwInActions # fwd.threwInConsumer
    /\ \E id \in Range(consumers) : id \notin fwd.destinationIds
    /\ \A id \in fwd.threwInActions : fwd.invoked[id] = 1

\* C5 as stated: the promise of forward is never resolved while the send of a
\* targeted consumer is still in progress.
C5_ResolvesAfterSends ==
    fwd.state = "resolved" => fwd.sending = {}

\* C5, amended: the promise of forward resolves only after the function of every
\* targeted consumer has been called and has returned or thrown; a send that a
\* consumer started and did not finish within the call is not waited for.
C5_ResolvesAfterInvocations ==
    fwd.state = "resolved" =>
        /\ \A id \in Range(consumers) \cap fwd.destinationIds : fwd.invoked[id] >= 1
        /\ fwd.sending \subseteq {id \in Range(consumers) : fwd.invoked[id] >= 1}

C5_Witness ==
    /\ fwd.state = "resolved"
    /\ fwd.sending # {}
    /\ Cardinality(Range(consumers) \cap fwd.destinationIds) >= 2

\* C6: in the current config every producer id that is a key of mappings and
\* every consumer id listed under it is the id of an enabled component, and the
\* poller group of a disabled Pull Consumer is a component with no mapping.
MappingsEnabled(configuration) ==
    /\ \A p \in DOMAIN configuration.mappings :
          /\ IsEnabled(configuration, p)
          /\ \A id \in Range(configuration.mappings[p]) : IsEnabled(configuration, id)
    /\ \A m \in Range(configuration.components) :
          (m.class = PULL_CONSUMER_CLASS /\ ~m.enable) =>
              \E g \in Range(configuration.components) :
                  /\ g.class = PULL_GROUP_CLASS
                  /\ g.pullConsumer = m.id
                  /\ g.id \notin DOMAIN configuration.mappings

C6_MappingsEnabled ==
    /\ MappingsEnabled(currentConfig)
    /\ \A c \in Calls : call[c].change.emitted => MappingsEnabled(call[c].change.config)

C6_Witness ==
    /\ \E c \in Calls : call[c].namespaceToUpdate # "" /\ call[c].pc = "resolved"
    /\ \E o \in Calls : call[o].api = "processDeclaration" /\ call[o].pc = "resolved"
    /\ DOMAIN currentConfig.mappings # {}
    /\ \E m \in Range(currentConfig.components) :
          m.class = PULL_GROUP_CLASS /\ ~m.enable

\* C7: a disabled consumer is in no destination list of the current mappings,
\* and a record forwarded with a destination list of the current mappings is
\* handed only to consumers of that list, all of them enabled.
C7_DisabledConsumerNotInvoked ==
    /\ \A m \in Range(currentConfig.components) :
          ~m.enable => \A p \in DOMAIN currentConfig.mappings :
                           m.id \notin Range(currentConfig.mappings[p])
    /\ \A p \in DOMAIN currentConfig.mappings :
          \A id \in Range(forwardTargets(consumers, Range(currentConfig.mappings[p]))) :
              /\ id \in Range(currentConfig.mappings[p])
              /\ IsEnabled(currentConfig, id)

C7_Witness ==
    /\ DOMAIN currentConfig.mappings # {}
    /\ \E m \in Range(currentConfig.components) :
          /\ m.class = CONSUMER_CLASS
          /\ ~m.enable
          /\ m.id \in Range(consumers)

C9_LoadFallsBack ==
    \A c \in Calls :
        call[c].api = "load" =>
            /\ call[c].pc # "rejected"
            /\ call[c].attempt = 2 =>
                  /\ ~call[c].save
                  /\ ~call[c].wrote
                  /\ call[c].setConfig => call[c].conf = BASE_CONFIG
                  /\ (call[c].pc = "resolved" /\ Alone(c)) =>
                        /\ storage = call[c].before.storage
                        /\ currentConfig = BASE_CONFIG

C9_Witness ==
    \E c \in Calls :
        /\ call[c].api = "load"
        /\ call[c].attempt = 2
        /\ call[c].pc = "resolved"
        /\ Alone(c)
        /\ storage.defined
        /\ storage.raw = StaleDeclaration

\* C10: in the 'change' event of an update of namespace N a component carries
\* skipUpdate exactly when its namespace is not N, and the components of the
\* other namespaces are those of the config the update started from; the event
\* of a full apply marks no component, and the current config holds no marker.
C10_SkipUpdateMarksOtherNamespaces ==
    /\ \A m \in Range(currentConfig.components) : ~m.skipUpdate
    /\ \A c \in Calls :
          call[c].change.emitted =>
              LET N == call[c].change.setConfigOpts
                  components == call[c].change.config.components
              IN /\ \A m \in Range(components) :
                        m.skipUpdate <=> (N # "" /\ m.namespace # N)
                 /\ N # "" =>
                        Unmarked(OtherNamespaces(components, N))
                            = OtherNamespaces(
                                  decryptSecrets(call[c].base).components, N)

\* C11: decrypted secrets exist only in the config handed to the 'change'
\* handlers: no component of the current config and no object of the stored
\* declaration ever holds a secret in plain text.
C11_SecretsStayEncrypted ==
    /\ \A m \in Range(currentConfig.components) : m.passphrase # "plain"
    /\ storage.defined =>
          \A o \in Range(AllObjects(storage.raw)) : o.passphrase # "plain"

\* a 'change' event carried a decrypted secret while the current config and
\* the stored declaration hold the same secret as cipher-text
C11_Witness ==
    \E c \in Calls :
        /\ call[c].pc = "resolved"
        /\ call[c].wrote
        /\ call[c].change.emitted
        /\ \E m \in Range(call[c].change.config.components) : m.passphrase = "plain"
        /\ \E m \in Range(currentConfig.components) : m.passphrase = "cipher"
        /\ storage.defined
        /\ \E o \in Range(AllObjects(storage.raw)) : o.passphrase = "cipher"

C14_RestartBounded ==
    /\ receiver.restarts <= RESTART_ATTEMPTS
    /\ receiver.gaveUp =>
          /\ receiver.restarts = RESTART_ATTEMPTS
          /\ receiver.state = "DESTROYED"
          /\ ~isRunning(receiver)
          /\ receiver.apply = "resolved"
          /\ receiver.listens = receiver.closes

\* every start attempt failed and the receiver was given up
C14_Witness ==
    /\ receiver.gaveUp
    /\ receiver.restarts = RESTART_ATTEMPTS
    /\ receiver.starts = RESTART_ATTEMPTS + 1
    /\ receiver.state = "DESTROYED"

\* C15: stop() on a receiver (TCP, UDP, dual UDP) that was never started
\* resolves and leaves it STOPPED, not DESTROYED, and not running.
C15_StopNeverStarted ==
    (receiver.starts = 0 /\ receiver.stopResult # "none" /\ ~receiver.destroyRequested)
        => /\ receiver.stopResult = "resolved"
           /\ receiver.state = "STOPPED"
           /\ ~isRunning(receiver)
           /\ receiver.closes = 0

\* a dual UDP receiver was stopped before it was ever started
C15_Witness ==
    /\ receiver.kind = "dualUdp"
    /\ receiver.starts = 0
    /\ receiver.stopResult = "resolved"
    /\ receiver.state = "STOPPED"

\* the sockets of a destroyed receiver: none is open, none is being closed,
\* and close was called as often as listen
DestroyedClean(r) ==
    r.state = "DESTROYED" =>
        /\ ~isRunning(r)
        /\ \A s \in AllSockets : r.sockets[s] = "none"
        /\ r.closes = r.listens

\* C16: DESTROYED is absorbing: once destroy() was called no socket is opened
\* again, whether a restart was pending or is triggered later; a destroyed
\* receiver stays destroyed, is not running, and every socket it opened has
\* been closed.
C16_DestroyedAbsorbing ==
    /\ [](DestroyedClean(receiver))
    /\ [][/\ (receiver.destroyRequested =>
                  (/\ receiver'.destroyRequested
                   /\ receiver'.listens = receiver.listens))
            /\ (receiver.state = "DESTROYED" => receiver'.state = "DESTROYED")]_vars

\* destroy() was called while a restart was waiting for its delay; the restart
\* fired afterwards and the receiver is DESTROYED with three listens and closes
C16_Witness ==
    /\ receiver.state = "DESTROYED"
    /\ receiver.ignored
    /\ ~receiver.timer
    /\ ~receiver.gaveUp
    /\ receiver.listens = 3
    /\ receiver.closes = 3

\* the data of one sender key within a sequence of data events, in order
OfSender(events, key) == SelectSeq(events, LAMBDA e : e.senderKey = key)

\* the events are those of one connection, from its first datum on, in the
\* order of arrival
InArrivalOrder(events) ==
    \A n \in 1..Len(events) :
        /\ events[n].data[1] = events[1].data[1]
        /\ n > 1 => events[n].data[2] > events[n - 1].data[2]

\* C18: the data of one sender are emitted by the receiver and handed to the
\* consumer in the order of their arrival, each with the senderKey
\* <proto>-<addr>-<port> of its connection.
C18_SenderOrder ==
    LET all == receiver.delivered \o receiver.emitted
    IN /\ \A n \in 1..Len(all) :
             LET sender == Senders(receiver.kind)[all[n].data[1]]
             IN all[n].senderKey = <<sender.socket, sender.address, sender.port>>
       /\ \A n \in 1..Len(all) :
             /\ InArrivalOrder(OfSender(receiver.delivered, all[n].senderKey))
             /\ InArrivalOrder(OfSender(receiver.emitted, all[n].senderKey))
             /\ InArrivalOrder(OfSender(all, all[n].senderKey))

\* the data of two senders were delivered interleaved, those of each sender in
\* order
C18_Witness ==
    /\ Len(receiver.delivered) = 4
    /\ receiver.delivered[1].data = <<2, 1>>
    /\ receiver.delivered[2].data = <<1, 1>>
    /\ receiver.delivered[3].data = <<1, 2>>
    /\ receiver.delivered[4].data = <<2, 2>>
    /\ receiver.delivered[1].senderKey # receiver.delivered[2].senderKey

\* the ports of the enabled listeners of the configuration last applied
EnabledPorts ==
    {eventListener.config[id].port :
        id \in {i \in ListenerIds : /\ eventListener.config[i].present
                                     /\ eventListener.config[i].enable}}

\* C12: after every configuration change the receivers manager holds one
\* receiver for each port an enabled listener uses and none for another port;
\* the listeners of one port share its receiver, which runs; a receiver is
\* destroyed when the last listener of its port is gone.
C12_OneReceiverPerPort ==
    /\ {port \in Ports : eventListener.registered[port].defined} = EnabledPorts
    /\ \A id \in ListenerIds :
          eventListener.instances[id].defined <=>
              (eventListener.config[id].present /\ eventListener.config[id].enable)
    /\ \A id \in ListenerIds :
          LET instance == eventListener.instances[id]
          IN instance.defined =>
                /\ instance.port = eventListener.config[id].port
                /\ eventListener.registered[instance.port].defined
                /\ eventListener.registered[instance.port].running
                /\ eventListener.registered[instance.port].stream = instance.stream
    /\ \A port \in Ports :
          eventListener.registered[port].defined
              => eventListener.registered[port].starts = 1

\* two listeners share the receiver of one port, after the receiver of the
\* other port was destroyed because its last listener moved away
C12_Witness ==
    /\ eventListener.instances[ListenerOrder[1]].defined
    /\ eventListener.instances[ListenerOrder[3]].defined
    /\ eventListener.instances[ListenerOrder[1]].port = 1234
    /\ eventListener.instances[ListenerOrder[3]].port = 1234
    /\ eventListener.instances[ListenerOrder[3]].updates > 2
    /\ eventListener.registered[1234].defined
    /\ ~eventListener.registered[6514].defined
    /\ eventListener.destroyed = 1

\* C13: a configuration change neither stops nor re-creates the receiver of a
\* listener that exists before and after it on the same port: the receiver
\* instance of the port and its number of starts stay, the listener is the
\* same instance, updated in place; a listener of a namespace that is not
\* being updated is left as it is.
C13_NoRestartOnSamePort ==
    [][eventListener'.changes # eventListener.changes =>
          \A id \in ListenerIds :
              LET before == eventListener.instances[id]
                  after == eventListener'.instances[id]
              IN /\ (before.defined /\ after.defined /\ before.port = after.port) =>
                        (/\ eventListener'.registered[after.port]
                               = eventListener.registered[before.port]
                         /\ after.stream = before.stream
                         /\ after.created = before.created)
                 /\ skipUpdate(id, eventListener'.namespaceToUpdate) =>
                        after = before]_vars

\* the first listener was created by the first change and updated in place by
\* the second, which changed its match pattern only; the third change added a
\* listener on another port in another namespace; the receiver of the first
\* listener is the one created first and was started once
C13_Witness ==
    LET first == eventListener.instances[ListenerOrder[1]]
        other == eventListener.instances[ListenerOrder[3]]
    IN /\ eventListener.changes = 3
       /\ eventListener.namespaceToUpdate = "New"
       /\ first.defined
       /\ first.created = 1
       /\ first.updates = 3
       /\ first.match = "somePattern"
       /\ eventListener.registered[first.port].stream = 1
       /\ eventListener.registered[first.port].starts = 1
       /\ other.defined
       /\ other.created = 3
       /\ other.port # first.port

\* C17: a frame received on a port is delivered to every enabled listener of
\* that port; each emits its own record (sourceId = its id) unless its match
\* pattern does not match the frame; a listener of another port emits nothing.
C17_FrameToEveryListener ==
    eventListener.frame.port # 0 =>
        \A id \in ListenerIds :
            LET c == eventListener.config[id]
            IN ([sourceId |-> id, data |-> eventListener.frame.raw]
                    \in eventListener.records)
               <=> (/\ c.present /\ c.enable
                    /\ c.port = eventListener.frame.port
                    /\ (c.match = "" \/ c.match \in eventListener.frame.keywords))

\* three listeners on one port received a frame: two emitted a record, the
\* one whose pattern does not match emitted none
C17_Witness ==
    /\ eventListener.frame.port = 1234
    /\ eventListener.frame.raw = "1234"
    /\ \A id \in ListenerIds :
          eventListener.instances[id].defined /\ eventListener.instances[id].port = 1234
    /\ Cardinality(eventListener.records) = 2
    /\ \A r \in eventListener.records : r.sourceId # ListenerOrder[2]

\* the part of C21 that does not depend on what happened before the call: a
\* call of getAccessToken sends a request exactly when the cache holds no
\* valid token under the token id of the account; a hit resolves with the
\* cached access token and leaves the cache alone; an answered request caches
\* the token under that token id and the call resolves with it; an
\* invalidation removes the token of that id and no other
AccessContract ==
    LET a == tokenCache.access
    IN /\ a.op = "getAccessToken" =>
            /\ a.requested <=> ~tokenIsValid(a.before[a.tokenId], a.at)
            /\ a.after = a.before
            /\ ~a.requested => a.resolved = a.before[a.tokenId].access_token
            /\ tokenCache.pending[a.request].state
                   = (IF a.requested THEN "requested" ELSE "resolved")
            /\ tokenCache.pending[a.request].tokenId = a.tokenId
       /\ a.op = "requestResolved" =>
            /\ a.after[a.tokenId].defined
            /\ a.after[a.tokenId].access_token = a.resolved
            /\ a.after[a.tokenId].expiresAt = a.at + a.after[a.tokenId].expires_in
            /\ tokenCache.pending[a.request].state = "resolved"
            /\ tokenCache.pending[a.request].resolved = a.resolved
       /\ tokenCache.result.op = "invalidateToken" =>
            LET r == tokenCache.result
            IN /\ ~r.after[r.tokenId].defined
               /\ \A t \in TokenIds \ {r.tokenId} : r.after[t] = r.before[t]
       /\ \A q \in Requests :
            tokenCache.pending[q].state # "idle" =>
                tokenCache.pending[q].tokenId =
                    (IF tokenCache.pending[q].account = "metadata"
                     THEN "serviceEmail" ELSE "privateKeyId")

\* C21 as stated: in addition, the first getAccessToken of an account after
\* invalidateToken of that account is always a miss.
C21_NextAfterInvalidateIsMiss ==
    /\ AccessContract
    /\ (/\ tokenCache.access.op = "getAccessToken"
        /\ tokenCache.access.sinceInvalidate # "none")
           => tokenCache.access.requested

\* C21, amended: getAccessToken sends a request exactly when the cache holds
\* no valid token for the token id of the account (privateKeyId, or
\* serviceEmail with useServiceAccountToken); a hit resolves with the cached
\* access token without a request; an answered request is cached under that
\* token id and resolves the call; invalidateToken removes the token of the
\* account only, and the next getAccessToken of the account is a miss unless
\* a request that was in flight has been answered since the invalidation.
C21_RequestIffMiss ==
    /\ AccessContract
    /\ (/\ tokenCache.access.op = "getAccessToken"
        /\ tokenCache.access.sinceInvalidate = "invalidated")
           => tokenCache.access.requested

\* the third call is a miss after an invalidation, made while the token of
\* the other account stays cached and valid; the first two calls were misses
\* whose requests were answered
C21_Witness ==
    LET a == tokenCache.access
    IN /\ a.op = "getAccessToken"
       /\ a.request = 3
       /\ a.tokenId = "serviceEmail"
       /\ a.sinceInvalidate = "invalidated"
       /\ a.requested
       /\ tokenCache.pending[1].state = "resolved"
       /\ tokenCache.pending[1].tokenId = "privateKeyId"
       /\ tokenCache.pending[2].state = "resolved"
       /\ tokenCache.pending[2].tokenId = "serviceEmail"
       /\ tokenIsValid(tokenCache.cache["privateKeyId"], tokenCache.now)

\* the metadata in the options of a call of processDeclaration: of the call
\* in progress or last made by invocation c, or of the first call load() made
MetadataOf(c, attempt) ==
    IF attempt = call[c].attempt THEN call[c].metadata ELSE LoadMetadata

\* the events of validation of a call carry the transaction id of the call
\* and the metadata of its options, and no other call has that transaction id
ValidationEventsCorrelated ==
    \A c \in Calls : \A i \in 1..Len(call[c].events) :
        LET e == call[c].events[i]
        IN e.name # "change" =>
              /\ e.transactionID = generateUuid(e.by[1], e.by[2])
              /\ e.transactionID # NoTransactionID
              /\ e.metadata = MetadataOf(c, e.by[2])
              /\ \A o \in Calls : \A j \in 1..Len(call[o].events) :
                    LET f == call[o].events[j]
                    IN (f.name # "change" /\ f.transactionID = e.transactionID)
                           => f.by = e.by

\* C22 as stated: every event of a call, 'change' included, carries the
\* transaction id of the call and the metadata of the caller's options.
C22_EveryEventCorrelated ==
    /\ ValidationEventsCorrelated
    /\ \A c \in Calls : \A i \in 1..Len(call[c].events) :
          LET e == call[c].events[i]
          IN e.name = "change" =>
                /\ e.transactionID = generateUuid(e.by[1], e.by[2])
                /\ e.metadata = MetadataOf(c, e.by[2])

\* C22, amended: 'received', 'validationSucceed' and 'validationFailed' of one
\* processDeclaration call carry the same transaction id, generated for that
\* call, and a copy of the caller's options.metadata; two calls never share
\* a transaction id; 'change' carries the configuration only, without
\* transaction id and without metadata.
C22_ValidationEventsCorrelated ==
    /\ ValidationEventsCorrelated
    /\ \A c \in Calls : \A i \in 1..Len(call[c].events) :
          LET e == call[c].events[i]
          IN e.name = "change" =>
                /\ e.transactionID = NoTransactionID
                /\ e.metadata = NoMetadata

\* a load whose stored declaration was rejected and whose fallback emitted
\* 'change', next to a call of another caller that failed validation: three
\* transaction ids, three metadata values
C22_Witness ==
    \E c \in Calls, o \in Calls :
        /\ c # o
        /\ call[c].api = "load"
        /\ TxEvents(c, 1) = <<"received", "validationFailed">>
        /\ TxEvents(c, 2) = <<"received", "validationSucceed", "change">>
        /\ call[o].api = "processDeclaration"
        /\ TxEvents(o, 1) = <<"received", "validationFailed">>

\* the declaration a read of the storage yields
RawOf(stored) == IF stored.defined THEN stored.raw ELSE BASE_DECLARATION

\* C23: getDeclaration() resolves with the stored raw declaration, or with
\* the base declaration when nothing is stored; getDeclaration(ns) resolves
\* with the stored namespace ns when it exists and rejects with
\* ObjectNotFoundInConfigError whenever the stored declaration has no
\* namespace named ns; storage and current config are not modified.
C23_GetDeclaration ==
    \A c \in Calls :
        (call[c].api = "getDeclaration"
            /\ call[c].pc \in {"resolved", "rejected"}
            /\ call[c].error # "StorageError") =>
        LET raw == RawOf(call[c].before.storage)
            ns == call[c].namespace
        IN /\ ns = "" =>
                /\ call[c].pc = "resolved"
                /\ call[c].returned.kind = "declaration"
                /\ call[c].returned.declaration = raw
           /\ (ns # "" /\ raw.ns[ns] # Absent) =>
                /\ call[c].pc = "resolved"
                /\ call[c].returned.member.class = NAMESPACE_CLASS_NAME
                /\ call[c].returned.member.objects = raw.ns[ns].objects
           /\ (ns # "" /\ raw.ns[ns] = Absent) =>
                /\ call[c].pc = "rejected"
                /\ call[c].error = "ObjectNotFoundInConfigError"
           /\ ~call[c].setConfig /\ ~call[c].wrote /\ ~call[c].change.emitted
           /\ Alone(c) => /\ storage = call[c].before.storage
                          /\ currentConfig = call[c].before.config

\* C24: a namespace update under a name that the stored declaration gives to
\* an object of another class than Telemetry_Namespace rejects; the stored
\* declaration and the current config stay and no 'change' is emitted.
C24_NoClassOverride ==
    \A c \in Calls :
        (/\ call[c].api = "processNamespaceDeclaration"
         /\ call[c].pc \notin {"idle", "getDeclaration"}
         /\ LET member == Member(RawOf(call[c].before.storage),
                                 call[c].namespaceToUpdate)
            IN member.defined /\ member.class # NAMESPACE_CLASS_NAME) =>
        /\ call[c].pc = "rejected"
        /\ call[c].error = "Error"
        /\ call[c].events = <<>>
        /\ ~call[c].setConfig /\ ~call[c].wrote /\ ~call[c].change.emitted
        /\ Alone(c) => /\ storage = call[c].before.storage
                       /\ currentConfig = call[c].before.config

\* an update of the name NsB was rejected because the stored declaration
\* holds a listener of that name, after an update of NsA was applied
C24_Witness ==
    \E c \in Calls, o \in Calls :
        /\ call[c].api = "processNamespaceDeclaration"
        /\ call[c].namespaceToUpdate = "NsB"
        /\ call[c].pc = "rejected"
        /\ call[c].error = "Error"
        /\ Member(RawOf(call[c].before.storage), "NsB").class = LISTENER_CLASS
        /\ call[o].api = "processNamespaceDeclaration"
        /\ call[o].namespaceToUpdate = "NsA"
        /\ call[o].pc = "resolved"
        /\ call[o].change.emitted

\* C25: the Kafka consumer creates at most one client per connection
\* configuration; a call made while the client initializes waits for that
\* client; a call sends its payload once, and only when the producer is
\* ready; later calls use the client that exists.
C25_OneKafkaClient ==
    /\ \A host \in KafkaHosts :
          /\ kafka.clients[host] <= 1
          /\ kafka.clients[host] = 1 <=> kafka.connection[host] # "none"
    /\ \A k \in KafkaCalls :
          LET c == kafka.call[k]
          IN c.state # "idle" =>
                /\ kafka.clients[c.host] = 1
                /\ c.sends = (IF c.state = "sent" THEN 1 ELSE 0)
                /\ c.state = "sent" => kafka.connection[c.host] = "ready"
                /\ c.state = "resolved" => kafka.connection[c.host] = "failed"
                /\ kafka.connection[c.host] = "initializing" => c.state = "waiting"

\* three calls for one broker, the first two made while the client was
\* initializing, the third after it was ready: one client, three sends
C25_Witness ==
    /\ \E host \in KafkaHosts :
          /\ kafka.clients[host] = 1
          /\ \A k \in KafkaCalls :
                kafka.call[k].host = host /\ kafka.call[k].sends = 1
    /\ kafka.call[1].found = "none"
    /\ kafka.call[2].found = "initializing"
    /\ kafka.call[3].found = "ready"

\* C26: when the processing of the actions of a consumer throws, forward
\* still calls that consumer, and the event the consumer is handed is the
\* record as it was before any action was applied.
C26_PreActionRecordOnThrow ==
    fwd.state # "idle" =>
        \A id \in fwd.threwInActions :
            /\ fwd.invoked[id] = 1
            /\ fwd.applied[id] = <<>>

\* the part of C26 that the code keeps: the exception is not propagated and
\* the consumer is called, with the event as the actions left it
C26_ConsumerCalledOnThrow ==
    fwd.state # "idle" =>
        \A id \in DOMAIN fwd.invoked :
            /\ id \in fwd.threwInActions => fwd.invoked[id] = 1
            /\ fwd.invoked[id] = 1 =>
                  \E n \in 0..Len(ConsumerActions) :
                      fwd.applied[id] = SubSeq(ConsumerActions, 1, n)

\* the tokens of the first message written
Written == pure.messages[1]

\* C27 as stated: in every message written, the value of every field whose
\* key is passphrase or cipherText, at any depth and inside embedded JSON
\* strings, is the mask; logging a written message again leaves it as it is.
C27_SecretFieldsAreMask ==
    pure.op \in {"logged", "loggedAgain"} =>
        /\ \A i \in 1..Len(Written) :
              (Written[i].kind = "key" /\ Written[i].text \in SecretKeys) =>
                  /\ i < Len(Written)
                  /\ Written[i + 1].kind = "string"
                  /\ Written[i + 1].text = mask
        /\ pure.op = "loggedAgain" => pure.messages[2] = pure.messages[1]

\* C27, amended: in every message written, every string that is the value
\* of a key passphrase or cipherText, at any depth and inside embedded JSON
\* strings, is the mask, and no secret is left in the text; a passphrase
\* whose value is an object is replaced by the mask when an object is
\* logged and keeps its object, with the cipherText in it masked, when a
\* text is logged; logging a written message again leaves it as it is.
C27_SecretsMasked ==
    pure.op \in {"logged", "loggedAgain"} =>
        /\ \A i \in 1..Len(Written) :
              (Written[i].kind = "key" /\ Written[i].text \in SecretKeys) =>
                  /\ i < Len(Written)
                  /\ \/ /\ Written[i + 1].kind = "string"
                        /\ Written[i + 1].text = mask
                     \/ /\ pure.message.kind = "string"
                        /\ Written[i].text = "passphrase"
                        /\ Written[i + 1].kind = "{"
                        /\ Written[i + 2] = Token("key", "cipherText", Written[i].level)
                        /\ Written[i + 3] = Token("string", mask, Written[i].level)
        /\ \A i \in 1..Len(Written) :
              (Written[i].kind = "string" /\ Written[i].text \in Passphrases) =>
                  Written[i - 1] = Token("key", "foo", 0)
        /\ pure.op = "loggedAgain" => pure.messages[2] = pure.messages[1]

\* an object with a secret inside an embedded JSON string and a nested
\* passphrase was logged, and the text written was logged again
C27_Witness ==
    /\ pure.op = "loggedAgain"
    /\ pure.message.kind = "object"
    /\ Len(pure.message.data.fields) = 2
    /\ pure.message.data.fields[1][1] = "jsonData"
    /\ pure.message.data.fields[2][1] = "someSecretData_4"
    /\ Token("string", mask, 1) \in Range(Written)
    /\ Token("string", mask, 0) \in Range(Written)

\* the named pollers the Pull Consumer of the declaration references
ConsumerPollers ==
    UNION {Range(o.systemPoller) :
              o \in {x \in Range(pure.objects) : x.class = PULL_CONSUMER_CLASS}}

HasKey(n) == \A k \in Range(pure.key.names) : pure.data.items[n][k] # Undefined

\* the key value of the element at n: the values of the key's fields joined
\* with the separator, after the prefix
KeyValue(n) ==
    LET sep == IF pure.options.keyNamesSeparator = Undefined
               THEN <<"_">> ELSE pure.options.keyNamesSeparator
        prefix == IF pure.options.keyNamePrefix = Undefined
                  THEN <<>> ELSE pure.options.keyNamePrefix
    IN prefix \o keyNameOfJoined(pure.data.items[n], pure.key, sep)

\* no later element of the array has the key value of the element at n
LastOfKey(n) ==
    \A m \in (n + 1)..Len(pure.data.items) : KeyValue(m) # KeyValue(n)

\* C29: _convertArrayToMap throws when data is not an array; otherwise the
\* map holds each element under its key value (prefix, then the values of
\* the key's fields joined with the separator), and with skipWhenKeyMissing
\* an element that lacks the key is not in the map.
C29_ConvertArrayToMap ==
    pure.op = "converted" =>
        /\ pure.threw <=> ~ pure.data.isArray
        /\ \A n \in 1..Len(pure.data.items) :
              /\ (HasKey(n) /\ LastOfKey(n)) =>
                    /\ KeyValue(n) \in DOMAIN pure.ret
                    /\ pure.ret[KeyValue(n)] = pure.data.items[n]
              /\ (pure.options.skipWhenKeyMissing /\ ~ HasKey(n)) =>
                    pure.data.items[n] \notin {pure.ret[k] : k \in DOMAIN pure.ret}

\* what the function does: it throws exactly when data is not an array,
\* and every element, with or without the key and whatever
\* skipWhenKeyMissing is, is in the map under its key name unless a later
\* element has the same one; with a separator of one character the key
\* name of an element that has the key is its key value
ConvertContract ==
    pure.op = "converted" =>
        /\ pure.threw <=> ~ pure.data.isArray
        /\ \A n \in 1..Len(pure.data.items) :
              LET keyName == keyNameOf(pure.data.items[n], pure.key, pure.options)
              IN /\ keyName \in DOMAIN pure.ret
                 /\ (\A m \in (n + 1)..Len(pure.data.items) :
                        keyNameOf(pure.data.items[m], pure.key, pure.options) # keyName)
                       => pure.ret[keyName] = pure.data.items[n]
                 /\ (HasKey(n) /\ pure.options.keyNamesSeparator # <<":", ":">>)
                       => keyName = KeyValue(n)

\* the key a pattern map makes of key k when every pattern of the map that
\* matches k is applied, in the order of the map, to the key made so far
AllMatchesApplied(k, map) ==
    LET made[i \in 0..Len(map)] ==
            IF i = 0 THEN k
            ELSE IF keyMatch(k, map[i], pure.options)
                 THEN applyPattern(made[i - 1], map[i])
                 ELSE made[i - 1]
    IN made[Len(map)]

\* the key a pattern map makes of key k when the first pattern of the map
\* that matches k decides
FirstMatchApplied(k, map) ==
    IF \E i \in 1..Len(map) : keyMatch(k, map[i], pure.options)
    THEN LET first == CHOOSE i \in 1..Len(map) :
                 /\ keyMatch(k, map[i], pure.options)
                 /\ \A j \in 1..(i - 1) : ~ keyMatch(k, map[j], pure.options)
         IN applyPattern(k, map[first])
    ELSE k

\* the key an array of maps makes of k: the maps in array order, each on
\* the key the one before made
MapsInOrder(k, maps, OneMap(_, _)) ==
    LET made[i \in 0..Len(maps)] ==
            IF i = 0 THEN k ELSE OneMap(made[i - 1], maps[i])
    IN made[Len(maps)]

\* the keys of the renamed object, and of the objects in it, are the keys
\* NewKey makes of the keys of the data
KeysRenamed(NewKey(_)) ==
    pure.op = "renamed" =>
        IF pure.data.type # "object" THEN pure.ret = pure.data
        ELSE /\ {f[1] : f \in Range(pure.ret.fields)}
                  = {NewKey(f[1]) : f \in Range(pure.data.fields)}
             /\ \A f \in Range(pure.data.fields) :
                   f[2].type = "object" =>
                     \E g \in Range(pure.ret.fields) :
                        /\ g[1] = NewKey(f[1])
                        /\ {h[1] : h \in Range(g[2].fields)}
                             = {NewKey(h[1]) : h \in Range(f[2].fields)}

\* C30 as stated: within a map the first matching pattern determines the
\* new key, and the maps of an array are applied in array order, each on
\* the key the previous one produced.
C30_FirstMatchWins ==
    KeysRenamed(LAMBDA k : MapsInOrder(k, pure.patterns.maps, FirstMatchApplied))

\* C30: within a map every pattern that matches the key as it was given to
\* the map is applied, in the order of the map, to the key produced so far
\* (the last matching constant is the new key); the maps of an array are
\* applied in array order, each on the key the previous one produced.
C30_AllMatchesInOrder ==
    /\ KeysRenamed(LAMBDA k : MapsInOrder(k, pure.patterns.maps, AllMatchesApplied))
    /\ (pure.op = "renamed" /\ pure.data.type = "object" /\ ~ pure.patterns.isArray) =>
          \A f \in Range(pure.data.fields) :
            LET map == pure.patterns.maps[1]
                matching == {i \in 1..Len(map) : keyMatch(f[1], map[i], pure.options)}
            IN /\ matching = {} =>
                    \E g \in Range(pure.ret.fields) : g[1] = f[1]
               /\ \A i \in matching :
                    ((\A j \in matching : j <= i) /\ map[i].constant # Undefined) =>
                        \E g \in Range(pure.ret.fields) : g[1] = map[i].constant

\* an array of two maps whose reversal gives other keys, the second map
\* matching only the key the first one produces
C30_Witness ==
    /\ pure.op = "renamed"
    /\ pure.data.type = "object"
    /\ pure.patterns.isArray
    /\ Len(pure.patterns.maps) = 2
    /\ pure.ret # _renameKeys(pure.data,
                              [pure.patterns EXCEPT
                                  !.maps = <<pure.patterns.maps[2], pure.patterns.maps[1]>>],
                              pure.options)
    /\ \E g \in Range(pure.ret.fields) : g[1] = <<"V">>

\* C31 as stated: a normalizer never modifies the data object passed in, and
\* calling it twice with the same arguments returns equal results.
C31_DataNeverModified ==
    /\ pure.op # "arguments" => pure.data = pure.before
    /\ pure.op = "calledAgain" =>
         (pure.again.threw = pure.first.threw
          /\ (~ pure.first.threw => pure.again.result = pure.first.result))

\* C31: calling a normalizer twice returns equal results when the data given
\* to the second call equals the data given to the first; the data object
\* itself may be modified: _filterDataByKeys and restructureGslbWideIp
\* return the object they were given, filtered or restructured, and
\* getPercentFromKeys with nestedObjects adds the accumulated partialKey and
\* totalKey to it and leaves the rest as it was.
C31_EqualResultsForEqualData ==
    /\ (pure.op = "calledAgain" /\ pure.again.argument = pure.before) =>
         (pure.again.threw = pure.first.threw
          /\ (~ pure.first.threw => pure.again.result = pure.first.result))
    /\ (pure.op = "called" /\ ~ pure.first.threw) =>
         CASE pure.fn = "_filterDataByKeys" -> pure.data = pure.first.result
           [] pure.fn = "restructureGslbWideIp" -> pure.data = pure.first.result
           [] pure.fn = "getPercentFromKeys" ->
                IF pure.opts.nestedObjects
                THEN /\ \A p \in Range(pure.before.props) :
                          p[1] \notin {"free", "total"} => getProp(pure.data, p[1]) = p[2]
                     /\ getProp(pure.data, "free").kind # "undefined"
                     /\ getProp(pure.data, "total").kind # "undefined"
                ELSE pure.data = pure.before
    /\ (pure.op = "called" /\ pure.first.threw) => pure.data = pure.before

\* a second call with equal data gives the result of the first, although
\* the first call changed the object it was given and a call with that
\* object would give another result
C31_Witness ==
    /\ pure.op = "calledAgain"
    /\ pure.second = "equal data"
    /\ pure.data # pure.before
    /\ pure.again.result = pure.first.result
    /\ Normalizer(pure.fn, pure.data, pure.opts).result # pure.first.result

\* the instants of the policies whose versionDatetime is parseable
ParseableInstants ==
    {DateParse(p.versionDatetime).n :
        p \in {q \in Range(pure.data) : DateParse(q.versionDatetime).kind = "number"}}

RECURSIVE PathExists(_, _)
\* every key of the path exists when the path is followed through data
PathExists(data, path) ==
    \/ path = <<>>
    \/ /\ data.kind = "object"
       /\ \E i \in 1..Len(data.props) : data.props[i][1] = Head(path)
       /\ PathExists(getProp(data, Head(path)), Tail(path))

RECURSIVE ValueAt(_, _)
\* the value at the end of a path that exists
ValueAt(data, path) ==
    IF path = <<>> THEN data ELSE ValueAt(getProp(data, Head(path)), Tail(path))

\* some key of the host data matches the first pattern, and so on down the
\* sub-properties of the matching keys
RECURSIVE SomeKeyMatches(_, _)
SomeKeyMatches(props, keys) ==
    \/ keys = <<>> /\ props # <<>>
    \/ /\ keys # <<>>
       /\ \E i \in 1..Len(props) :
             /\ includes(props[i][1], Head(keys))
             /\ SomeKeyMatches(props[i][2].props, Tail(keys))

\* getValue: the value at the path when every key of it exists, otherwise
\* 'missing data', and no exception
GetValueContract ==
    (pure.op = "returned" /\ pure.fn = "getValue"
        /\ pure.data.kind = "object" /\ pure.path.given) =>
        /\ ~ pure.threw
        /\ pure.ret = IF PathExists(pure.data, pure.path.keys)
                      THEN ValueAt(pure.data, pure.path.keys)
                      ELSE MissingData

\* restructureHostCpuInfo: 'missing data' when no key matches the pattern
HostCpuInfoContract ==
    (pure.op = "returned" /\ pure.fn = "restructureHostCpuInfo"
        /\ pure.data.kind = "object" /\ pure.path.given
        /\ ~ SomeKeyMatches(pure.data.props, pure.path.keys)) =>
        (~ pure.threw /\ pure.ret = MissingData)

\* C33: getValue returns the value found by following the path when every
\* key on it exists and the string 'missing data', without throwing, when
\* some key is absent; restructureHostCpuInfo returns 'missing data' when no
\* key matches the pattern.
C33_MissingData == GetValueContract /\ HostCpuInfoContract

C35_SaveFailureLeavesConfig ==
    (/\ call[1].pc = "rejected"
     /\ call[1].error = "StorageError"
     /\ call[1].setConfig
     /\ \A c \in Calls \ {1} : call[c].pc = "idle") =>
        /\ \A i \in 1..Len(call[1].events) : call[1].events[i].name # "change"
        /\ ~ call[1].change.emitted
        /\ storage = call[1].before.storage
        /\ currentConfig = call[1].before.config

\* what holds of a failed save: the call rejects with the storage error, no
\* 'change' is emitted and the storage is as before, while the current
\* config is already the new one of the call
SaveFailureContract ==
    (/\ call[1].pc = "rejected"
     /\ call[1].error = "StorageError"
     /\ call[1].setConfig
     /\ \A c \in Calls \ {1} : call[c].pc = "idle") =>
        /\ \A i \in 1..Len(call[1].events) : call[1].events[i].name # "change"
        /\ ~ call[1].change.emitted
        /\ storage = call[1].before.storage
        /\ currentConfig = call[1].conf


InNamespace(components, namespace) ==
    SelectSeq(components, LAMBDA m : m.namespace = namespace)

\* two namespace updates, of different namespaces, that have both resolved
BothNamespaceUpdatesResolved(a, b) ==
    /\ a # b
    /\ call[a].api = "processNamespaceDeclaration"
    /\ call[b].api = "processNamespaceDeclaration"
    /\ call[a].pc = "resolved"
    /\ call[b].pc = "resolved"
    /\ call[a].namespaceToUpdate # call[b].namespaceToUpdate

\* the stored declaration and the current config hold the namespace as the
\* call has validated and normalized it
NamespaceApplied(c) ==
    LET N == call[c].namespaceToUpdate
    IN /\ storage.defined
       /\ storage.raw.ns[N] # Absent
       /\ storage.raw.ns[N] = call[c].storageData.ns[N]
       /\ InNamespace(currentConfig.components, N) # <<>>
       /\ InNamespace(currentConfig.components, N)
              = InNamespace(call[c].conf.components, N)

\* C36: no lost update: when two calls of processNamespaceDeclaration for
\* different namespaces have both resolved, the stored declaration holds both
\* namespaces and the current config holds the components of both.
C36_NoLostUpdate ==
    \A a \in Calls, b \in Calls :
        BothNamespaceUpdatesResolved(a, b) =>
            NamespaceApplied(a) /\ NamespaceApplied(b)

\* the same of two namespace updates of which the second has read the stored
\* declaration after the first had written it
NoLostUpdateWhenSequential ==
    \A a \in Calls, b \in Calls :
        (/\ BothNamespaceUpdatesResolved(a, b)
         /\ call[b].before.storage.defined
         /\ call[b].before.storage.raw.ns[call[a].namespaceToUpdate] # Absent) =>
            NamespaceApplied(a) /\ NamespaceApplied(b)

\* two namespace updates of different namespaces have run one after the other
\* and both namespaces are stored and current
SequentialNamespaceUpdates ==
    \E a \in Calls, b \in Calls :
        /\ BothNamespaceUpdatesResolved(a, b)
        /\ call[b].before.storage.defined
        /\ call[b].before.storage.raw.ns[call[a].namespaceToUpdate] # Absent
        /\ NamespaceApplied(a)
        /\ NamespaceApplied(b)


\* every call is a processDeclaration with save = true that has resolved
AllSavingCallsResolved ==
    \A c \in Calls :
        /\ call[c].api = "processDeclaration"
        /\ call[c].save
        /\ call[c].pc = "resolved"

\* the current config is the normalized form of the stored declaration
MemoryDescribesStorage ==
    /\ storage.defined
    /\ currentConfig = normalizeDeclaration(Expanded(storage.raw))

\* C37: when the calls of processDeclaration with save = true have all
\* resolved, the current config is the normalized form of the declaration
\* that was written last under the 'config' key.
C37_MemoryMatchesStorage ==
    AllSavingCallsResolved => MemoryDescribesStorage

\* the same of calls of which the second has started after the first had
\* written its declaration to a storage that was empty
MemoryMatchesStorageWhenSequential ==
    (/\ AllSavingCallsResolved
     /\ ~ call[1].before.storage.defined
     /\ call[2].before.storage.defined) => MemoryDescribesStorage

\* two calls with different declarations have run one after the other, and
\* the current config is that of the declaration stored by the second
SequentialSavingCalls ==
    /\ AllSavingCallsResolved
    /\ ~ call[1].before.storage.defined
    /\ call[2].before.storage.defined
    /\ call[1].storageData # call[2].storageData
    /\ storage.raw = call[2].storageData
    /\ currentConfig = call[2].conf
    /\ MemoryDescribesStorage


\* the 'change' event of the call carries the decrypted copy of the config
\* that the call has normalized from its own declaration
ChangeCarriesOwnConfig(c) ==
    call[c].change.config
        = MarkSkipUpdate(decryptSecrets(call[c].conf), call[c].namespaceToUpdate)

\* C38: the config delivered in the 'change' event of a call of
\* processDeclaration is the config computed from the declaration of that
\* call, also when another call of processDeclaration overlaps with it.
C38_ChangeCarriesOwnConfig ==
    \A c \in Calls :
        (/\ call[c].api = "processDeclaration"
         /\ call[c].change.emitted) => ChangeCarriesOwnConfig(c)

\* the same of a call that no other call overlaps with
ChangeCarriesOwnConfigWhenAlone ==
    \A c \in Calls :
        (/\ call[c].api = "processDeclaration"
         /\ call[c].change.emitted
         /\ Alone(c)) => ChangeCarriesOwnConfig(c)

\* a call that ran alone has emitted 'change' with its own config, which
\* holds components
ChangeEmittedAlone ==
    \E c \in Calls :
        /\ call[c].api = "processDeclaration"
        /\ call[c].change.emitted
        /\ Alone(c)
        /\ call[c].conf.components # <<>>
        /\ ChangeCarriesOwnConfig(c)


\* the notification of the call ends in this step, with a failure
NotifyFails(c) ==
    /\ call[c].api = "processDeclaration"
    /\ call[c].pc = "decrypt"
    /\ call'[c].pc # "decrypt"
    /\ call'[c].notifyError # ""

\* C39: a failure while notifying (the decryption of the secrets failing, or
\* a handler of 'change' rejecting) is swallowed: processDeclaration resolves
\* with the validated declaration, and the failure changes neither the stored
\* declaration nor the current config, which for a call that no other call
\* overlaps with are the declaration and the config of the call.
C39_NotifyFailureSwallowed ==
    [][\A c \in Calls :
          NotifyFails(c) =>
              /\ call'[c].pc = "resolved"
              /\ call'[c].returned.kind = "declaration"
              /\ call'[c].returned.declaration = call[c].storageData
              /\ call[c].storageData = Validated(call[c].storageData)
              /\ storage' = storage
              /\ configField' = configField
              /\ Alone(c) =>
                    /\ currentConfig' = call[c].conf
                    /\ call[c].save =>
                          storage' = [defined |-> TRUE, raw |-> call[c].storageData]]_vars

\* a call with save = true has resolved although a handler of 'change'
\* rejected: its declaration is stored and its config, which holds
\* components, is the current one
C39_Witness ==
    \E c \in Calls :
        /\ call[c].api = "processDeclaration"
        /\ call[c].notifyError = "HandlerError"
        /\ call[c].pc = "resolved"
        /\ call[c].change.emitted
        /\ call[c].wrote
        /\ call[c].returned.declaration = call[c].storageData
        /\ storage = [defined |-> TRUE, raw |-> call[c].storageData]
        /\ currentConfig = call[c].conf
        /\ call[c].conf.components # <<>>

\* the same after a failure of the decryption: 'change' was not emitted
NotifyFailureBeforeChange ==
    \E c \in Calls :
        /\ call[c].api = "processDeclaration"
        /\ call[c].notifyError = "DecryptError"
        /\ call[c].pc = "resolved"
        /\ ~ call[c].change.emitted
        /\ call[c].wrote
        /\ storage = [defined |-> TRUE, raw |-> call[c].storageData]
        /\ currentConfig = call[c].conf

====
